---- MODULE Spec2Model ----
(***************************************************************************)
(* Model of the two polling loops of hyperplexity_mcp:                     *)
(*   tools/jobs.py          wait_for_job                                   *)
(*   tools/conversations.py wait_for_conversation                          *)
(*                                                                         *)
(* Numbers.  Progress values are Python floats in the source.  Here they   *)
(* are exact decimals counted in millionths of a percent (Unit = 1 %), so  *)
(* 79.2 is 79200000.  Native progress values are whole percents.  With     *)
(* whole native values every product and quotient of the source is exact   *)
(* in this unit (invariant ExactArithmetic); the square root of            *)
(* _synthetic_progress is rounded down to a tenth of a percent.            *)
(* Time is counted in seconds.                                             *)
(*                                                                         *)
(* Optional values (Python None) are None == <<>> and Some(v) == <<v>>.    *)
(* Texts that the code lower-cases or searches are tuples of characters.   *)
(***************************************************************************)
EXTENDS Integers, Sequences, FiniteSets, TLC

VARIABLES
    tool,                   \* which wait tool this call is
    at,                     \* position of the call in its loop
    now,                    \* time.monotonic() - start of the call
    timeout_seconds,        \* argument
    poll_interval,          \* argument
    expected_seconds,       \* argument of wait_for_conversation
    last_seq,               \* jobs.py:235
    cursor_primed,          \* jobs.py:236
    msg_progress,           \* jobs.py:292 (whole percents)
    last_emitted,           \* jobs.py:293, conversations.py:147
    phase_floor,            \* jobs.py:225  _pf[0]
    phase_ceiling,          \* jobs.py:226  _pc[0]
    last_intermediate_step, \* jobs.py:193  _last_intermediate_step[0]
    data,                   \* jobs.py:294, conversations.py:148
    result,                 \* what the call returned, None while it runs
    \* ---- observations of the run (history variables) ----
    reported,               \* the value of the latest _report call, None before
    n_reports,              \* number of _report calls so far
    n_realloc,              \* number of range reallocations performed
    n_status,               \* number of successful status fetches
    inter_keys,             \* step keys of the intermediate snapshots seen,
                            \* consecutive repetitions collapsed
    snap,                   \* range, estimate and count right after the first
                            \* of a run of equal intermediate snapshots in
                            \* consecutive cycles, and the length of the run
    rx_seq,                 \* top-level last_seq of the message response
                            \* just received
    rx_count,               \* number of messages in that response
    n_visible,              \* number of messages _fetch_messages returned
    since_sent,             \* since_seq parameter of the latest message fetch
    msg_failed,             \* whether the message fetch of this cycle failed
    n_msg_fetch,            \* number of message fetches made, failed ones too
    n_status_fetch,         \* number of status fetches made, failed ones too
    delivered,              \* whether the latest _report call reached the
                            \* caller (FALSE: ctx.report_progress raised)
    \* ---- two concurrent wait_for_job calls ----
    mem,                    \* the cells that hold the locals of the two calls
    solo,                   \* the locals of each call run alone against the
                            \* responses it received
    \* ---- a client that calls the one-shot tools ----
    feed,                   \* number of messages the job has produced
    client_since,           \* since_seq of the client's next get_job_messages
    client_seen,            \* sequence numbers the client has received
    replayed,               \* the latest response held a message the client
                            \* had received before
    approved_cost_usd,      \* argument of approve_validation, None if not given
    requests,               \* validate requests the backend has received
    validate_response,      \* the backend's answer to the latest of them
    backend_status          \* status of the job at the backend

vars == <<tool, at, now, timeout_seconds, poll_interval, expected_seconds,
          last_seq, cursor_primed, msg_progress, last_emitted, phase_floor,
          phase_ceiling, last_intermediate_step, data, result, reported,
          n_reports, n_realloc, n_status, inter_keys, snap, rx_seq, rx_count,
          n_visible, since_sent, msg_failed, n_msg_fetch, n_status_fetch,
          delivered, mem, solo, feed, client_since, client_seen, replayed,
          approved_cost_usd, requests, validate_response, backend_status>>

jobVars == <<last_seq, cursor_primed, msg_progress, phase_floor,
             phase_ceiling, last_intermediate_step>>
params == <<tool, timeout_seconds, poll_interval, expected_seconds>>
msgObs == <<rx_seq, rx_count, n_visible, since_sent, msg_failed>>
statusObs == <<n_realloc, n_status, inter_keys, snap>>
twoCalls == <<mem, solo>>
followVars == <<feed, client_since, client_seen, replayed>>
approveVars == <<approved_cost_usd, requests, validate_response, backend_status>>

----------------------------------------------------------------------------
(* Bounds of the model *)

MaxCycles == 3
MaxSeq == 2

(* Values *)

None == <<>>
Some(v) == <<v>>
Unit == 1000 * 1000
Hundred == 100 * Unit

Max(a, b) == IF a >= b THEN a ELSE b
Min(a, b) == IF a <= b THEN a ELSE b

\* Arguments and fetch durations, in seconds
PollIntervals == {120}
FetchTimes == {0, 120}
MsgFetchTimes == {0}
Timeouts == {0, 120 * (MaxCycles - 1) - 40}
ExpectedSeconds == {0, 300}

----------------------------------------------------------------------------
(* Texts *)

UpperChars == <<"A", "B", "C", "D", "E", "F", "G", "H", "I", "J", "K", "L", "M", "N", "O", "P", "Q", "R", "S", "T", "U", "V", "W", "X", "Y", "Z">>
LowerChars == <<"a", "b", "c", "d", "e", "f", "g", "h", "i", "j", "k", "l", "m", "n", "o", "p", "q", "r", "s", "t", "u", "v", "w", "x", "y", "z">>

LowerChar(c) ==
    IF \E i \in DOMAIN UpperChars : UpperChars[i] = c
    THEN LowerChars[CHOOSE i \in DOMAIN UpperChars : UpperChars[i] = c]
    ELSE c

\* str.lower()
Lower(text) == [i \in 1..Len(text) |-> LowerChar(text[i])]

\* needle in hay
Contains(needle, hay) ==
    \E i \in 0..(Len(hay) - Len(needle)) :
        SubSeq(hay, i + 1, i + Len(needle)) = needle

INTERMEDIATE_STEPS == {
    <<"c", "o", "n", "f", "i", "g", " ", "g", "e", "n", "e", "r", "a", "t", "i", "o", "n">>,
    <<"c", "o", "n", "f", "i", "g", "u", "r", "a", "t", "i", "o", "n", " ", "g", "e", "n", "e", "r", "a", "t", "i", "o", "n">>,
    <<"t", "a", "b", "l", "e", " ", "m", "a", "k", "i", "n", "g">>,
    <<"t", "a", "b", "l", "e", " ", "m", "a", "k", "e", "r">>,
    <<"c", "l", "a", "i", "m", " ", "e", "x", "t", "r", "a", "c", "t", "i", "o", "n">> }

\* Step texts the modelled backend sends; the empty text is an absent field.
NoText == <<>>
ConfigGeneration == <<"C", "o", "n", "f", "i", "g", " ", "G", "e", "n", "e", "r", "a", "t", "i", "o", "n">>
ConfigGenerationLc == <<"c", "o", "n", "f", "i", "g", " ", "g", "e", "n", "e", "r", "a", "t", "i", "o", "n">>
TableMaking == <<"T", "a", "b", "l", "e", " ", "M", "a", "k", "i", "n", "g">>
ValidationRun == <<"V", "a", "l", "i", "d", "a", "t", "i", "o", "n", " ", "r", "u", "n">>
ClaimExtraction == <<"C", "l", "a", "i", "m", " ", "E", "x", "t", "r", "a", "c", "t", "i", "o", "n">>

\* a JSON null where a text is expected (no text holds this element)
NullText == <<"null">>

\* a or b, on texts: the empty text and null are falsy
OrText(a, b) == IF a \notin {NoText, NullText} THEN a ELSE b

\* text.startswith(prefix)
StartsWith(text, prefix) ==
    Len(text) >= Len(prefix) /\ SubSeq(text, 1, Len(prefix)) = prefix

\* Identifiers: the arguments of the calls, and identifier prefixes the
\* guidance looks for
JobId == <<"j", "1">>
ConversationId == <<"c", "1">>
SessionId == <<"s", "1">>
SessionPrefix == <<"s", "e", "s", "s", "i", "o", "n", "_">>
RefinePrefix == <<"r", "e", "f", "i", "n", "e", "_">>

----------------------------------------------------------------------------
(* Response payloads.  A payload is a dict; the model keeps the keys the    *)
(* code reads.  An absent key holds "", the empty text, FALSE, 0 or an    *)
(* empty dict or list, so the dict with no key at all is AbsentPayload.   *)

\* the value of "next_step": a dict, or something that is no dict
NextStep(action, trig) ==
    [isdict |-> TRUE, action |-> action, trigger_execution |-> trig]
NoNextStep == NextStep("", FALSE)
NotDictNextStep == [isdict |-> FALSE, action |-> "", trigger_execution |-> FALSE]

\* the value of "cost_estimate"; a cost of 0 is an absent one
CostEstimate(total) == [isdict |-> TRUE, estimated_total_cost_usd |-> total]
NoCostEstimate == CostEstimate(0)
NotDictCostEstimate == [isdict |-> FALSE, estimated_total_cost_usd |-> 0]

\* the value of "target_row_count": a number (0 when absent), or a text
\* that is no number
RowCount(n) == [isnumber |-> TRUE, n |-> n]
NotNumber == [isnumber |-> FALSE, n |-> 0]

\* an element of "matches"
Match(score, config) == [isdict |-> TRUE, match_score |-> score, config_id |-> config]
NotDictMatch == [isdict |-> FALSE, match_score |-> 0, config_id |-> ""]

\* the value of "job_info"
JobInfo(refs) == [isdict |-> TRUE, has_reference_results |-> refs]
NotDictJobInfo == [isdict |-> FALSE, has_reference_results |-> FALSE]

AbsentPayload ==
    [status |-> "", current_step |-> NoText, step |-> NoText,
     user_reply_needed |-> FALSE, trigger_execution |-> FALSE,
     job_id |-> NoText, conversation_id |-> NoText, session_id |-> NoText,
     next_step |-> NoNextStep, messages |-> <<>>, last_seq |-> None,
     target_row_count |-> RowCount(0), trigger_config_generation |-> FALSE,
     cost_estimate |-> NoCostEstimate, estimated_cost_usd |-> 0, cost_usd |-> 0,
     refine_session_id |-> NoText, matches |-> <<>>, config_matches |-> <<>>,
     interview_auto_started |-> FALSE, run_type |-> "",
     job_info |-> JobInfo(FALSE), config_id |-> ""]

(* Job states (GET /jobs/{job_id}) *)

JobState(s, cs, st) ==
    [AbsentPayload EXCEPT !.job_id = JobId, !.status = s, !.current_step = cs,
                          !.step = st]

\* data: dict = {}
EmptyData == AbsentPayload
\* {"job_id": job_id, "status": "unknown"}
UnknownData == [AbsentPayload EXCEPT !.job_id = JobId, !.status = "unknown"]
\* {"conversation_id": ..., "session_id": ..., "status": "unknown"}
UnknownConversation ==
    [AbsentPayload EXCEPT !.conversation_id = ConversationId,
                          !.session_id = SessionId, !.status = "unknown"]

StatusResponses == {
    AbsentPayload,
    JobState("processing", NoText, NoText),
    JobState("completed", ConfigGeneration, NoText),
    JobState("completed", ConfigGenerationLc, NoText),
    JobState("completed", TableMaking, NoText),
    JobState("completed", NoText, ClaimExtraction),
    JobState("completed", NoText, TableMaking),
    JobState("completed", ValidationRun, NoText),
    JobState("completed", NoText, NoText),
    JobState("completed", NullText, NoText),
    JobState("preview_complete", NoText, NoText),
    JobState("failed", NoText, NoText) }

\* faulty variant: the step text is compared without lower-casing it
is_intermediate_complete_CaseSensitive(d) ==
    IF d.status # "completed"
    THEN FALSE
    ELSE LET step == OrText(d.current_step, OrText(d.step, NoText))
         IN  \E s \in INTERMEDIATE_STEPS : Contains(s, step)

\* faulty variant: the step field is not looked at
is_intermediate_complete_CurrentStepOnly(d) ==
    IF d.status # "completed"
    THEN FALSE
    ELSE LET step == Lower(OrText(d.current_step, NoText))
         IN  \E s \in INTERMEDIATE_STEPS : Contains(s, step)

_is_intermediate_complete(d) ==
    IF d.status # "completed"
    THEN FALSE
    ELSE LET step == Lower(OrText(d.current_step, OrText(d.step, NoText)))
         IN  \E s \in INTERMEDIATE_STEPS : Contains(s, step)

\* faulty variant: a failed job is not taken as terminal
is_true_terminal_NoFailed(d) ==
    IF d.status \in {"preview_complete"}
    THEN TRUE
    ELSE IF d.status = "completed" /\ ~_is_intermediate_complete(d)
         THEN TRUE
         ELSE FALSE

\* faulty variant: a finished preview is not taken as terminal
is_true_terminal_NoPreview(d) ==
    IF d.status \in {"failed"}
    THEN TRUE
    ELSE IF d.status = "completed" /\ ~_is_intermediate_complete(d)
         THEN TRUE
         ELSE FALSE

\* faulty variant: every completed job is taken as terminal
is_true_terminal_AnyCompleted(d) ==
    d.status \in {"preview_complete", "failed", "completed"}

_is_true_terminal(d) ==
    IF d.status \in {"preview_complete", "failed"}
    THEN TRUE
    ELSE IF d.status = "completed" /\ ~_is_intermediate_complete(d)
         THEN TRUE
         ELSE FALSE

\* faulty variant: the key keeps the case of the step text
current_step_key_CaseSensitive(d) == OrText(d.current_step, NoText)

\* current_step_key = (data.get("current_step") or "").lower()
current_step_key(d) == Lower(OrText(d.current_step, NoText))

----------------------------------------------------------------------------
(* Messages (GET /jobs/{job_id}/messages) *)

\* A payload is a dict (a function from its keys to whole percents) or
\* something that is no dict; an absent payload and {} are both EmptyDict.
Dict(kv) == [isdict |-> TRUE, kv |-> kv]
EmptyDict == Dict(<<>>)
NotDict == [isdict |-> FALSE, kv |-> <<>>]
TruthyPayload(p) == ~p.isdict \/ DOMAIN p.kv # {}
OrPayload(a, b) == IF TruthyPayload(a) THEN a ELSE b

\* a or b, on optional sequence numbers: None and 0 are falsy
OrSeq(a, b) == IF a # None /\ a # Some(0) THEN a ELSE b

Msg(s, p) ==
    [isdict |-> TRUE, u_seq |-> Some(s), seq |-> None, message_data |-> p,
     data |-> EmptyDict]
\* the same content under the alternative keys "seq" and "data"
MsgAlt(s, p) ==
    [isdict |-> TRUE, u_seq |-> None, seq |-> Some(s), message_data |-> EmptyDict,
     data |-> p]
\* a message that is no dict (a bare text)
NotDictMessage ==
    [isdict |-> FALSE, u_seq |-> None, seq |-> None, message_data |-> EmptyDict,
     data |-> EmptyDict]

ProgressKeys == <<"progress", "percent", "progress_percent", "value">>

\* a payload value that float() rejects (null, a text that is no number)
NotANumber == 0 - 1000
\* the exception float() raises, as an outcome of _extract_progress
ValueError == Some(NotANumber)
\* float(payload[key])
float(v) == IF v = NotANumber THEN ValueError ELSE Some(v)

Payloads == {
    Dict("progress" :> 0),
    Dict("progress" :> NotANumber @@ "percent" :> 55),
    Dict("progress" :> 0 - 5),
    Dict("progress" :> 55),
    Dict("progress" :> 100),
    Dict("percent" :> 55 @@ "value" :> 100),
    EmptyDict,
    NotDict }

SeqValues == 0..MaxSeq

Messages ==
    {Msg(s, p) : s \in SeqValues, p \in Payloads}
    \cup {MsgAlt(s, Dict("value" :> 55)) : s \in SeqValues}

Batches ==
    {<<>>}
    \cup {<<m>> : m \in Messages}
    \cup {<<Msg(1, p), Msg(s, q)>> :
             p \in Payloads, s \in SeqValues,
             q \in {EmptyDict, Dict("progress" :> 0), Dict("progress" :> NotANumber)}}

MsgResponses == [messages : Batches, last_seq : {None} \cup {Some(s) : s \in SeqValues}]

\* faulty variant: the messages are scanned oldest first
RECURSIVE extract_progress_Oldest(_)
extract_progress_Oldest(messages) ==
    IF messages = <<>>
    THEN None
    ELSE LET msg == messages[1]
             payload == OrPayload(msg.message_data, OrPayload(msg.data, EmptyDict))
             keys == IF payload.isdict
                     THEN {i \in DOMAIN ProgressKeys : ProgressKeys[i] \in DOMAIN payload.kv}
                     ELSE {}
         IN  IF keys # {}
             THEN float(payload.kv[ProgressKeys[CHOOSE i \in keys : \A j \in keys : i <= j]])
             ELSE extract_progress_Oldest(SubSeq(messages, 2, Len(messages)))

\* faulty variant: an or-chain over the keys, which drops a value of 0
RECURSIVE extract_progress_OrChain(_)
extract_progress_OrChain(messages) ==
    IF messages = <<>>
    THEN None
    ELSE LET msg == messages[Len(messages)]
             payload == OrPayload(msg.message_data, OrPayload(msg.data, EmptyDict))
             keys == IF payload.isdict
                     THEN {i \in DOMAIN ProgressKeys :
                             /\ ProgressKeys[i] \in DOMAIN payload.kv
                             /\ payload.kv[ProgressKeys[i]] # 0}
                     ELSE {}
         IN  IF keys # {}
             THEN float(payload.kv[ProgressKeys[CHOOSE i \in keys : \A j \in keys : i <= j]])
             ELSE extract_progress_OrChain(SubSeq(messages, 1, Len(messages) - 1))

\* _extract_progress: None, Some(the latest progress value), or ValueError
RECURSIVE _extract_progress(_)
_extract_progress(messages) ==
    IF messages = <<>>
    THEN None
    ELSE LET msg == messages[Len(messages)]
             payload == OrPayload(msg.message_data, OrPayload(msg.data, EmptyDict))
             keys == IF payload.isdict
                     THEN {i \in DOMAIN ProgressKeys : ProgressKeys[i] \in DOMAIN payload.kv}
                     ELSE {}
         IN  IF keys # {}
             THEN float(payload.kv[ProgressKeys[CHOOSE i \in keys : \A j \in keys : i <= j]])
             ELSE _extract_progress(SubSeq(messages, 1, Len(messages) - 1))

\* new_seq of _fetch_messages
NewSeq(resp) ==
    IF resp.last_seq = None /\ resp.messages # <<>>
    THEN LET last == resp.messages[Len(resp.messages)]
         IN  OrSeq(last.u_seq, last.seq)
    ELSE resp.last_seq

\* if new_seq is not None: last_seq = new_seq
NextCursor(cursor, new_seq) == IF new_seq # None THEN new_seq ELSE cursor

\* faulty variant: the first batch is not discarded
Visible_NoPriming(primed, messages) == messages

\* faulty variant: of the first batch the latest message is kept
Visible_KeepsLatest(primed, messages) ==
    IF ~primed /\ messages # <<>> THEN <<messages[Len(messages)]>> ELSE messages

\* what _fetch_messages returns
Visible(primed, messages) == IF ~primed THEN <<>> ELSE messages

\* msg_progress after step 1, given what _fetch_messages returned; an
\* exception of _extract_progress is caught by the try of step 1
NextMsgProgress(old, messages) ==
    IF messages # <<>> /\ _extract_progress(messages) \notin {None, ValueError}
    THEN _extract_progress(messages)[1]
    ELSE old

----------------------------------------------------------------------------
(* Progress geometry *)

InitialFloor == 0 * Unit
InitialCeiling == 99 * Unit
DefaultProgress == 2

\* faulty variant: the within-phase value is not capped at 99
scale_to_range_NoCap(phase_pct, pf, pc) ==
    LET clamped == Max(phase_pct, 0)
    IN  pf + clamped * ((pc - pf) \div 100)

\* _scale_to_range, phase_pct in whole percents
_scale_to_range(phase_pct, pf, pc) ==
    LET clamped == Min(Max(phase_pct, 0), 99)
    IN  pf + clamped * ((pc - pf) \div 100)

\* faulty variant: no clamp against last_emitted
EmitPct_NoClamp(native, pf, pc, floor_so_far) ==
    _scale_to_range(Max(native, DefaultProgress), pf, pc)

\* faulty variant: a native value of 100 is emitted as 100
EmitPct_NativeDone(native, pf, pc, floor_so_far) ==
    IF native >= 100
    THEN Hundred
    ELSE Max(_scale_to_range(Max(native, DefaultProgress), pf, pc), floor_so_far)

\* emit_pct of step 2
EmitPct(native, pf, pc, floor_so_far) ==
    LET candidate == _scale_to_range(Max(native, DefaultProgress), pf, pc)
    IN  Max(candidate, floor_so_far)

\* faulty variant: the new floor is not clipped to ceiling - 1
NewFloor_NoClip(pf, pc, emitted) ==
    LET spend == pf + ((pc - pf) * 8) \div 10
    IN  Max(spend, emitted + Unit \div 2)

\* faulty variant: the new floor ignores what was already emitted
NewFloor_SpendOnly(pf, pc, emitted) ==
    LET spend == pf + ((pc - pf) * 8) \div 10
    IN  Min(spend, pc - 1 * Unit)

\* new_floor of the phase split
NewFloor(pf, pc, emitted) ==
    LET spend == pf + ((pc - pf) * 8) \div 10
        new_floor == Max(spend, emitted + Unit \div 2)
    IN  Min(new_floor, pc - 1 * Unit)

\* faulty variant: every intermediate snapshot splits
IsNewStep_Always(key, last) == TRUE

\* the guard of the phase split
IsNewStep(key, last) == Some(key) # last

\* integer square root
ISqrt(n) == CHOOSE r \in 0..1000 : r * r <= n /\ n < (r + 1) * (r + 1)

\* _synthetic_progress, elapsed and expected in seconds
_synthetic_progress(elapsed, expected) ==
    IF elapsed <= 0
    THEN 2 * Unit
    ELSE IF elapsed < expected
         THEN Min(90 * Unit, ISqrt(810 * ((elapsed * 1000) \div expected)) * (Unit \div 10))
         ELSE Min(98 * Unit, 90 * Unit + ((elapsed - expected) * 2 * Unit) \div 60)

\* user_reply_needed or trigger_execution or status not in (...)
\* faulty variant: trigger_execution does not end the wait
ConversationDone_NoTrigger(d) ==
    LET status == IF d.status = "" THEN "processing" ELSE d.status
    IN  d.user_reply_needed
        \/ status \notin {"processing", "queued", "in_progress"}

ConversationDone(d) ==
    LET status == IF d.status = "" THEN "processing" ELSE d.status
    IN  d.user_reply_needed \/ d.trigger_execution
        \/ status \notin {"processing", "queued", "in_progress"}

ConvState(s, reply, trig) ==
    [AbsentPayload EXCEPT !.status = s, !.user_reply_needed = reply,
                          !.trigger_execution = trig]

\* data.setdefault("conversation_id", ...); data.setdefault("session_id", ...)
SetDefaultIds(d) ==
    [d EXCEPT !.conversation_id = IF @ = NoText THEN ConversationId ELSE @,
              !.session_id = IF @ = NoText THEN SessionId ELSE @]

ConvResponses ==
    {ConvState(s, r, t) : s \in {"", "processing", "queued", "in_progress", "completed"},
                          r \in BOOLEAN, t \in BOOLEAN}

----------------------------------------------------------------------------
(* Guidance (guidance.py).  A summary is modelled by a tag that names the  *)
(* return statement that built it; a next step keeps its tool and the      *)
(* parameters taken from the payload.  A builder gives Return(...) or, when *)
(* the Python code raises (a method called on null or on a value of the    *)
(* wrong type), Raise.                                                     *)

\* faulty variant: a next step written without its note
Step_NoNote(tool_name, step_params) == [tool |-> tool_name, params |-> step_params]

\* a next step as every builder writes it: {"tool", "params", "note"}
Step(tool_name, step_params) ==
    [tool |-> tool_name, params |-> step_params, note |-> "note text"]
Return(summary, next_steps) ==
    [raised |-> FALSE, summary |-> summary, next_steps |-> next_steps]
Raise == [raised |-> TRUE, summary |-> "", next_steps |-> <<>>]

\* faulty variant: the first operand is taken even when it is falsy
OrNum_NoFallback(a, b) == a

\* a or b, on numbers: 0 is falsy
OrNum(a, b) == IF a # 0 THEN a ELSE b

ConversationParams(d) ==
    "conversation_id" :> d.conversation_id @@ "session_id" :> d.session_id

_guidance_upload_file(d) ==
    Return("File uploaded",
           <<Step("confirm_upload", "session_id" :> d.session_id)>>)

_guidance_confirm_upload(d) ==
    LET matches == IF d.matches # <<>> THEN d.matches ELSE d.config_matches
    IN  IF matches # <<>> /\ ~matches[1].isdict
        THEN Raise
        ELSE LET best_score == IF matches # <<>> THEN matches[1].match_score ELSE 0
             IN  IF d.conversation_id \notin {NoText, NullText} /\ d.interview_auto_started
                 THEN Return("Upload confirmed, interview started",
                             <<Step("wait_for_conversation",
                                    ConversationParams(d) @@ "expected_seconds" :> 120),
                               Step("get_conversation", ConversationParams(d))>>)
                 ELSE IF best_score >= 85
                      THEN Return("Upload confirmed, prior config matches",
                                  <<Step("create_job",
                                         "session_id" :> d.session_id
                                         @@ "config_id" :> matches[1].config_id)>>)
                      ELSE Return("Upload confirmed, no strong match",
                                  <<Step("create_job",
                                         "session_id" :> d.session_id
                                         @@ "config" :> "<paste config JSON here>")>>)

_guidance_create_job(d) ==
    IF d.job_id = NullText
    THEN Raise
    ELSE IF StartsWith(d.job_id, SessionPrefix) /\ d.run_type = "preview"
         THEN Return("Preview job created",
                     <<Step("wait_for_job", "job_id" :> d.job_id),
                       Step("get_job_messages", "job_id" :> d.job_id)>>)
         ELSE Return("Job created",
                     <<Step("wait_for_job", "job_id" :> d.job_id)>>)

\* faulty variant: a validation step is taken for an intermediate phase
GuidanceMarkers_Validation ==
    INTERMEDIATE_STEPS \cup {<<"v", "a", "l", "i", "d", "a", "t", "i", "o", "n">>}

\* the markers _guidance_get_job_status looks for in current_step
GuidanceMarkers == {
    <<"c", "o", "n", "f", "i", "g", " ", "g", "e", "n", "e", "r", "a", "t", "i", "o", "n">>,
    <<"c", "o", "n", "f", "i", "g", "u", "r", "a", "t", "i", "o", "n", " ", "g", "e", "n", "e", "r", "a", "t", "i", "o", "n">>,
    <<"t", "a", "b", "l", "e", " ", "m", "a", "k", "i", "n", "g">>,
    <<"t", "a", "b", "l", "e", " ", "m", "a", "k", "e", "r">> }

_guidance_get_job_status(d) ==
    IF d.status \in {"queued", "processing"}
    THEN Return("Job is queued or processing",
                <<Step("wait_for_job", "job_id" :> d.job_id),
                  Step("get_job_status", "job_id" :> d.job_id)>>)
    ELSE IF d.status = "preview_complete"
    THEN IF ~d.cost_estimate.isdict
         THEN Raise
         ELSE LET cost == OrNum(d.cost_estimate.estimated_total_cost_usd,
                                OrNum(d.estimated_cost_usd, OrNum(d.cost_usd, 0)))
                  refine_session == OrText(d.refine_session_id, d.conversation_id)
                  approve == Step("approve_validation",
                                  "job_id" :> d.job_id @@ "approved_cost_usd" :> cost)
                  refine == Step("refine_config",
                                 "conversation_id" :> refine_session
                                 @@ "session_id" :> d.session_id
                                 @@ "instructions" :> "<describe the changes you want>")
              IN  Return("Preview complete. "
                         \o (IF d.config_id # ""
                             THEN "config_id for future reruns: " \o d.config_id \o ". "
                             ELSE "")
                         \o "Approve to start full processing.",
                         IF refine_session \notin {NoText, NullText}
                         THEN <<approve, refine>>
                         ELSE <<approve>>)
    ELSE IF d.status = "completed"
    THEN IF d.current_step = NullText
         THEN Raise
         ELSE IF \E m \in GuidanceMarkers : Contains(m, Lower(d.current_step))
              THEN Return("Table maker complete (intermediate phase)",
                          <<Step("wait_for_job", "job_id" :> d.job_id),
                            Step("get_job_status", "job_id" :> d.job_id)>>)
              ELSE Return("Job completed successfully",
                          <<Step("get_results", "job_id" :> d.job_id),
                            Step("get_reference_results", "job_id" :> d.job_id)>>)
    ELSE IF d.status = "failed"
    THEN Return("Job failed", <<>>)
    ELSE Return("Job status is other",
                <<Step("get_job_status", "job_id" :> d.job_id)>>)

_guidance_get_job_messages(d) ==
    IF \E i \in DOMAIN d.messages : ~d.messages[i].isdict
    THEN Raise
    ELSE LET since == NewSeq(d)
         IN  Return("Fetched messages",
                    <<Step("get_job_messages",
                           IF since # None
                           THEN "job_id" :> d.job_id @@ "since_seq" :> since[1]
                           ELSE "job_id" :> d.job_id),
                      Step("get_job_status", "job_id" :> d.job_id)>>)

_guidance_approve_validation(d) ==
    Return("Validation approved",
           <<Step("wait_for_job", "job_id" :> d.job_id)>>)

_guidance_get_results(d) ==
    IF ~d.job_info.isdict
    THEN Raise
    ELSE Return("Validation complete",
                IF d.job_info.has_reference_results
                THEN <<Step("get_reference_results", "job_id" :> d.job_id)>>
                ELSE <<>>)

_guidance_get_reference_results(d) ==
    Return("Reference results fetched", <<>>)

_guidance_update_table(d) ==
    Return("Update-table job started",
           <<Step("wait_for_job", "job_id" :> d.job_id)>>)

_guidance_reference_check(d) ==
    Return("Reference-check job started",
           <<Step("wait_for_job", "job_id" :> d.job_id)>>)

_guidance_start_table_maker(d) ==
    IF d.status = "completed"
    THEN Return("Table-maker conversation started (completed immediately)",
                <<Step("get_conversation", ConversationParams(d))>>)
    ELSE Return("Table-maker conversation started",
                <<Step("wait_for_conversation",
                       ConversationParams(d) @@ "expected_seconds" :> 150),
                  Step("get_conversation", ConversationParams(d))>>)

ReplyStep(d, message) ==
    Step("send_conversation_reply", ConversationParams(d) @@ "message" :> message)

\* faulty variant: the status rule for processing is evaluated first
guidance_get_conversation_StatusFirst(d) ==
    IF d.status = "processing"
    THEN Return("Conversation is still processing",
                <<Step("wait_for_conversation", ConversationParams(d)),
                  Step("get_conversation", ConversationParams(d))>>)
    ELSE IF d.user_reply_needed
    THEN Return("AI is waiting for your reply",
                <<ReplyStep(d, "<your answer here>")>>)
    ELSE Return("Conversation status",
                <<Step("get_conversation", ConversationParams(d))>>)

_guidance_get_conversation(d) ==
    IF d.user_reply_needed
    THEN IF d.messages # <<>> /\ ~d.messages[Len(d.messages)].isdict
         THEN Raise
         ELSE Return("AI is waiting for your reply",
                     <<ReplyStep(d, "<your answer here>")>>)
    ELSE IF d.status = "processing"
    THEN Return("Conversation is still processing",
                <<Step("wait_for_conversation", ConversationParams(d)),
                  Step("get_conversation", ConversationParams(d))>>)
    ELSE IF ~d.next_step.isdict
    THEN Raise
    ELSE IF d.next_step.action = "submit_preview"
    THEN IF d.trigger_execution \/ d.next_step.trigger_execution
         THEN IF d.conversation_id = NullText
              THEN Raise
              ELSE IF StartsWith(d.conversation_id, RefinePrefix)
              THEN Return("Config refinement complete",
                          <<Step("wait_for_job", "job_id" :> d.session_id)>>)
              ELSE IF ~d.target_row_count.isnumber
              THEN Raise
              ELSE Return("Table is being built",
                          <<Step("wait_for_job", "job_id" :> d.session_id)>>)
         ELSE Return("Interview complete",
                     <<Step("wait_for_job", "job_id" :> d.session_id),
                       Step("refine_config",
                            ConversationParams(d)
                            @@ "instructions" :> "<describe changes>")>>)
    ELSE IF d.status = "execution_ready"
    THEN Return("Conversation is execution_ready",
                <<ReplyStep(d, "<follow next_step.action instructions>")>>)
    ELSE IF d.status = "approved" /\ d.trigger_config_generation
    THEN Return("Upload interview complete",
                <<Step("create_job", "session_id" :> d.session_id),
                  Step("refine_config",
                       ConversationParams(d)
                       @@ "instructions" :> "<describe changes>")>>)
    ELSE Return("Conversation status",
                <<Step("get_conversation", ConversationParams(d))>>)

_guidance_send_conversation_reply(d) ==
    Return("Reply sent",
           <<Step("wait_for_conversation",
                  ConversationParams(d) @@ "expected_seconds" :> 60),
             Step("get_conversation", ConversationParams(d))>>)

_guidance_refine_config(d) ==
    Return("Config refinement submitted",
           <<Step("wait_for_conversation",
                  ConversationParams(d) @@ "expected_seconds" :> 90),
             Step("get_conversation", ConversationParams(d))>>)

_guidance_get_balance(d) == Return("Account balance", <<>>)

_guidance_get_usage(d) == Return("Usage data fetched", <<>>)

\* the keys of the dispatch table
BUILDERS == {
    "upload_file", "confirm_upload", "create_job", "get_job_status",
    "wait_for_job", "get_job_messages", "approve_validation", "get_results",
    "get_reference_results", "update_table", "reference_check",
    "start_table_maker", "get_conversation", "send_conversation_reply",
    "refine_config", "get_balance", "get_usage" }

\* _BUILDERS[tool_name](api_data)
Builder(tool_name, d) ==
    CASE tool_name = "upload_file" -> _guidance_upload_file(d)
      [] tool_name = "confirm_upload" -> _guidance_confirm_upload(d)
      [] tool_name = "create_job" -> _guidance_create_job(d)
      [] tool_name = "get_job_status" -> _guidance_get_job_status(d)
      [] tool_name = "wait_for_job" -> _guidance_get_job_status(d)
      [] tool_name = "get_job_messages" -> _guidance_get_job_messages(d)
      [] tool_name = "approve_validation" -> _guidance_approve_validation(d)
      [] tool_name = "get_results" -> _guidance_get_results(d)
      [] tool_name = "get_reference_results" -> _guidance_get_reference_results(d)
      [] tool_name = "update_table" -> _guidance_update_table(d)
      [] tool_name = "reference_check" -> _guidance_reference_check(d)
      [] tool_name = "start_table_maker" -> _guidance_start_table_maker(d)
      [] tool_name = "get_conversation" -> _guidance_get_conversation(d)
      [] tool_name = "send_conversation_reply" -> _guidance_send_conversation_reply(d)
      [] tool_name = "refine_config" -> _guidance_refine_config(d)
      [] tool_name = "get_balance" -> _guidance_get_balance(d)
      [] tool_name = "get_usage" -> _guidance_get_usage(d)

\* what build_guidance returns, or Raise when the exception leaves it
Guidance(summary, next_steps) == [summary |-> summary, next_steps |-> next_steps]

\* faulty variant: no try/except around the builder
build_guidance_NoExcept(tool_name, api_data) ==
    IF tool_name \notin BUILDERS
    THEN Guidance("No guidance defined for tool", <<>>)
    ELSE LET built == Builder(tool_name, api_data)
         IN  IF built.raised
             THEN Raise
             ELSE Guidance(built.summary, built.next_steps)

build_guidance(tool_name, api_data) ==
    IF tool_name \notin BUILDERS
    THEN Guidance("No guidance defined for tool", <<>>)
    ELSE LET built == Builder(tool_name, api_data)
         IN  IF built.raised
             THEN Guidance("Guidance error", <<>>)
             ELSE Guidance(built.summary, built.next_steps)

----------------------------------------------------------------------------
(* The locals of one wait_for_job call as a record, and the steps of the   *)
(* loop between two suspension points as functions on it.  Used for two    *)
(* calls that run concurrently on the event loop.                          *)

LocalNames == {"at", "cycles", "last_seq", "cursor_primed", "msg_progress",
               "last_emitted", "phase_floor", "phase_ceiling",
               "last_intermediate_step", "emitted"}

InitialCall ==
    [at |-> "messages", cycles |-> 0, last_seq |-> None, cursor_primed |-> FALSE,
     msg_progress |-> DefaultProgress, last_emitted |-> 0,
     phase_floor |-> InitialFloor, phase_ceiling |-> InitialCeiling,
     last_intermediate_step |-> None, emitted |-> <<>>]

\* step 1 with the response resp
AfterMessages(c, resp) ==
    [c EXCEPT !.last_seq = NextCursor(c.last_seq, NewSeq(resp)),
              !.cursor_primed = TRUE,
              !.msg_progress = NextMsgProgress(c.msg_progress,
                                               Visible(c.cursor_primed, resp.messages)),
              !.at = "emit"]

\* step 1 with a failing endpoint
AfterMessagesFailed(c) == [c EXCEPT !.at = "emit"]

\* step 2
AfterEmit(c) ==
    LET emit_pct == EmitPct(c.msg_progress, c.phase_floor, c.phase_ceiling,
                            c.last_emitted)
    IN  [c EXCEPT !.last_emitted = emit_pct, !.emitted = Append(@, emit_pct),
                  !.at = "status"]

\* step 3 with the job state d
AfterStatus(c, d) ==
    IF _is_intermediate_complete(d)
    THEN IF IsNewStep(current_step_key(d), c.last_intermediate_step)
         THEN [c EXCEPT !.last_intermediate_step = Some(current_step_key(d)),
                        !.phase_floor = NewFloor(c.phase_floor, c.phase_ceiling,
                                                 c.last_emitted),
                        !.msg_progress = DefaultProgress,
                        !.at = "guard"]
         ELSE [c EXCEPT !.at = "guard"]
    ELSE IF _is_true_terminal(d)
         THEN [c EXCEPT !.emitted = Append(@, Hundred), !.at = "returned"]
         ELSE [c EXCEPT !.at = "guard"]

\* step 3 with a failing endpoint
AfterStatusFailed(c) == [c EXCEPT !.at = "guard"]

\* step 4: return when the deadline has passed, sleep otherwise
AfterGuard(c, expired) ==
    [c EXCEPT !.at = IF expired THEN "returned" ELSE "messages",
              !.cycles = @ + 1]

CallIds == {1, 2}

\* faulty variant: the range and the remembered split step are created once
\* for the tool and used by every call
Frame_SharedRange(i, name) ==
    IF name \in {"phase_floor", "phase_ceiling", "last_intermediate_step"}
    THEN <<1, name>>
    ELSE <<i, name>>

\* the cell that holds the local `name` of call i: every local of
\* wait_for_job, the closure cells included, is created by the call
Frame(i, name) == <<i, name>>

InitialMem == [cell \in CallIds \X LocalNames |-> InitialCall[cell[2]]]

\* the locals call i sees
Load(memory, i) == [name \in LocalNames |-> memory[Frame(i, name)]]

\* the memory after call i has written its locals c
Store(memory, i, c) ==
    [cell \in DOMAIN memory |->
        IF Frame(i, cell[2]) = cell THEN c[cell[2]] ELSE memory[cell]]

----------------------------------------------------------------------------
(* The call *)

\* the locals and the observations at the head of the loop
StartLocals ==
    /\ now = 0
    /\ last_seq = None
    /\ cursor_primed = FALSE
    /\ msg_progress = DefaultProgress
    /\ last_emitted = 0
    /\ phase_floor = InitialFloor
    /\ phase_ceiling = InitialCeiling
    /\ last_intermediate_step = None
    /\ result = None
    /\ reported = None
    /\ n_reports = 0
    /\ n_realloc = 0
    /\ n_status = 0
    /\ inter_keys = <<>>
    /\ snap = None
    /\ rx_seq = None
    /\ rx_count = 0
    /\ n_visible = 0
    /\ since_sent = None
    /\ msg_failed = FALSE
    /\ n_msg_fetch = 0
    /\ n_status_fetch = 0
    /\ delivered = TRUE
    /\ mem = InitialMem
    /\ solo = [i \in CallIds |-> InitialCall]
    /\ feed = 0
    /\ client_since = None
    /\ client_seen = {}
    /\ replayed = FALSE
    /\ requests = <<>>
    /\ validate_response = None

\* the state at the head of the loop, for a call of one of `tools` with a
\* timeout among `timeouts`
Start(tools, timeouts) ==
    /\ tool \in tools
    /\ at = IF tool = "wait_for_job" THEN "messages" ELSE "emit"
    /\ timeout_seconds \in timeouts
    /\ poll_interval \in PollIntervals
    /\ expected_seconds \in IF tool = "wait_for_job" THEN {0} ELSE ExpectedSeconds
    /\ data = EmptyData
    /\ approved_cost_usd = None
    /\ backend_status = "processing"
    /\ StartLocals

Init == Start({"wait_for_job", "wait_for_conversation"}, Timeouts)

\* faulty variant: an exception of the reporting channel is not caught
report_NoExcept(channel_ok) == IF channel_ok THEN "returns" ELSE "raises"

\* _report: how the call ends when ctx.report_progress returns (channel_ok)
\* or raises
_report(channel_ok) == "returns"

\* what a wait call returns: the payload with _guidance and, on a timeout,
\* _wait_timeout added; kind names the return statement
Result(kind, d, guidance, wait_timeout) ==
    [kind |-> kind, data |-> d, guidance |-> guidance, wait_timeout |-> wait_timeout]

\* an exception that leaves the call
Raised == [kind |-> "raised", data |-> EmptyData, guidance |-> Raise,
           wait_timeout |-> FALSE]

\* wait_for_job step 1, the message endpoint answers resp after dt seconds
FetchMessagesOk(resp, dt) ==
    /\ tool = "wait_for_job"
    /\ at = "messages"
    /\ LET messages == Visible(cursor_primed, resp.messages)
       IN  /\ last_seq' = NextCursor(last_seq, NewSeq(resp))
           /\ cursor_primed' = TRUE
           /\ msg_progress' = NextMsgProgress(msg_progress, messages)
           /\ n_visible' = Len(messages)
    /\ rx_seq' = resp.last_seq
    /\ rx_count' = Len(resp.messages)
    /\ since_sent' = last_seq
    /\ msg_failed' = FALSE
    /\ n_msg_fetch' = n_msg_fetch + 1
    /\ now' = now + dt
    /\ at' = "emit"
    /\ UNCHANGED <<params, twoCalls, followVars, approveVars, last_emitted, phase_floor, phase_ceiling,
                   last_intermediate_step, data, result, reported, n_reports,
                   statusObs, n_status_fetch, delivered>>

\* faulty variant: a failed message fetch ends the cycle
FetchMessagesFail_SkipCycle(dt) ==
    /\ tool = "wait_for_job"
    /\ at = "messages"
    /\ since_sent' = last_seq
    /\ msg_failed' = TRUE
    /\ n_msg_fetch' = n_msg_fetch + 1
    /\ now' = now + dt
    /\ at' = "guard"
    /\ UNCHANGED <<params, twoCalls, followVars, approveVars, jobVars, last_emitted, data, result, reported,
                   n_reports, statusObs, rx_seq, rx_count, n_visible,
                   n_status_fetch, delivered>>

\* wait_for_job step 1, the message endpoint fails after dt seconds
FetchMessagesFail(dt) ==
    /\ tool = "wait_for_job"
    /\ at = "messages"
    /\ since_sent' = last_seq
    /\ msg_failed' = TRUE
    /\ n_msg_fetch' = n_msg_fetch + 1
    /\ now' = now + dt
    /\ at' = "emit"
    /\ UNCHANGED <<params, twoCalls, followVars, approveVars, jobVars, last_emitted, data, result, reported,
                   n_reports, statusObs, rx_seq, rx_count, n_visible,
                   n_status_fetch, delivered>>

\* wait_for_job step 2; channel_ok: ctx.report_progress returns
Emit(channel_ok) ==
    /\ tool = "wait_for_job"
    /\ at = "emit"
    /\ LET emit_pct == EmitPct(msg_progress, phase_floor, phase_ceiling, last_emitted)
       IN  /\ last_emitted' = emit_pct
           /\ reported' = Some(emit_pct)
    /\ n_reports' = n_reports + 1
    /\ delivered' = channel_ok
    /\ IF _report(channel_ok) = "raises"
       THEN at' = "raised" /\ result' = Some(Raised)
       ELSE at' = "status" /\ UNCHANGED result
    /\ rx_seq' = None
    /\ rx_count' = 0
    /\ n_visible' = 0
    /\ since_sent' = None
    /\ msg_failed' = FALSE
    /\ UNCHANGED <<params, twoCalls, followVars, approveVars, now, jobVars, data, statusObs, n_msg_fetch,
                   n_status_fetch>>

\* history of the intermediate snapshots: a key that differs from the one
\* before it opens a new run
NextInterKeys(keys, key) ==
    IF keys # <<>> /\ keys[Len(keys)] = key THEN keys ELSE Append(keys, key)

\* the same intermediate-complete snapshot: same current_step, compared
\* case-insensitively
SameSnapshot(a, b) ==
    /\ a.status = b.status
    /\ current_step_key(a) = current_step_key(b)
    /\ Lower(a.step) = Lower(b.step)

\* faulty variant: the phase split resets the message cursor
FetchStatusOk_ResetsCursor(d, dt) ==
    /\ tool = "wait_for_job"
    /\ at = "status"
    /\ now' = now + dt
    /\ data' = d
    /\ n_status' = n_status + 1
    /\ n_status_fetch' = n_status_fetch + 1
    /\ IF _is_intermediate_complete(d)
       THEN /\ IF IsNewStep(current_step_key(d), last_intermediate_step)
               THEN /\ last_intermediate_step' = Some(current_step_key(d))
                    /\ phase_floor' = NewFloor(phase_floor, phase_ceiling, last_emitted)
                    /\ msg_progress' = DefaultProgress
                    /\ n_realloc' = n_realloc + 1
                    /\ last_seq' = None
                    /\ cursor_primed' = FALSE
               ELSE UNCHANGED <<last_intermediate_step, phase_floor, msg_progress,
                                n_realloc, last_seq, cursor_primed>>
            /\ inter_keys' = NextInterKeys(inter_keys, Lower(d.current_step))
            /\ snap' = IF snap # None /\ SameSnapshot(data, d)
                       THEN Some([snap[1] EXCEPT !.run = @ + 1])
                       ELSE Some([floor |-> phase_floor', ceiling |-> phase_ceiling,
                                  native |-> msg_progress', splits |-> n_realloc',
                                  run |-> 1])
            /\ at' = "guard"
            /\ delivered' = TRUE
            /\ UNCHANGED <<result, reported, n_reports>>
       ELSE /\ IF _is_true_terminal(d)
               THEN \E channel_ok \in BOOLEAN :
                    /\ reported' = Some(Hundred)
                    /\ n_reports' = n_reports + 1
                    /\ delivered' = channel_ok
                    /\ IF _report(channel_ok) = "raises"
                       THEN \* inside the try of step 3: caught there
                            at' = "guard" /\ UNCHANGED result
                       ELSE /\ result' = Some(Result("terminal", d,
                                                      build_guidance("get_job_status", d),
                                                      FALSE))
                            /\ at' = "returned"
               ELSE /\ at' = "guard"
                    /\ delivered' = TRUE
                    /\ UNCHANGED <<result, reported, n_reports>>
            /\ snap' = None
            /\ UNCHANGED <<last_intermediate_step, phase_floor, msg_progress,
                           n_realloc, inter_keys, last_seq, cursor_primed>>
    /\ UNCHANGED <<params, twoCalls, followVars, approveVars, phase_ceiling, last_emitted,
                   msgObs, n_msg_fetch>>

\* faulty variant: a terminal state seen after the deadline is left to the
\* timeout guard
FetchStatusOk_DeadlineFirst(d, dt) ==
    /\ tool = "wait_for_job"
    /\ at = "status"
    /\ now' = now + dt
    /\ data' = d
    /\ n_status' = n_status + 1
    /\ n_status_fetch' = n_status_fetch + 1
    /\ IF _is_intermediate_complete(d)
       THEN /\ IF IsNewStep(current_step_key(d), last_intermediate_step)
               THEN /\ last_intermediate_step' = Some(current_step_key(d))
                    /\ phase_floor' = NewFloor(phase_floor, phase_ceiling, last_emitted)
                    /\ msg_progress' = DefaultProgress
                    /\ n_realloc' = n_realloc + 1
               ELSE UNCHANGED <<last_intermediate_step, phase_floor, msg_progress,
                                n_realloc>>
            /\ inter_keys' = NextInterKeys(inter_keys, Lower(d.current_step))
            /\ snap' = IF snap # None /\ SameSnapshot(data, d)
                       THEN Some([snap[1] EXCEPT !.run = @ + 1])
                       ELSE Some([floor |-> phase_floor', ceiling |-> phase_ceiling,
                                  native |-> msg_progress', splits |-> n_realloc',
                                  run |-> 1])
            /\ at' = "guard"
            /\ delivered' = TRUE
            /\ UNCHANGED <<result, reported, n_reports>>
       ELSE /\ IF _is_true_terminal(d) /\ now + dt < timeout_seconds
               THEN \E channel_ok \in BOOLEAN :
                    /\ reported' = Some(Hundred)
                    /\ n_reports' = n_reports + 1
                    /\ delivered' = channel_ok
                    /\ IF _report(channel_ok) = "raises"
                       THEN \* inside the try of step 3: caught there
                            at' = "guard" /\ UNCHANGED result
                       ELSE /\ result' = Some(Result("terminal", d,
                                                      build_guidance("get_job_status", d),
                                                      FALSE))
                            /\ at' = "returned"
               ELSE /\ at' = "guard"
                    /\ delivered' = TRUE
                    /\ UNCHANGED <<result, reported, n_reports>>
            /\ snap' = None
            /\ UNCHANGED <<last_intermediate_step, phase_floor, msg_progress,
                           n_realloc, inter_keys>>
    /\ UNCHANGED <<params, twoCalls, followVars, approveVars, last_seq, cursor_primed, phase_ceiling, last_emitted,
                   msgObs, n_msg_fetch>>

\* wait_for_job step 3, the status endpoint answers d after dt seconds
FetchStatusOk(d, dt) ==
    /\ tool = "wait_for_job"
    /\ at = "status"
    /\ now' = now + dt
    /\ data' = d
    /\ n_status' = n_status + 1
    /\ n_status_fetch' = n_status_fetch + 1
    /\ IF _is_intermediate_complete(d)
       THEN /\ IF IsNewStep(current_step_key(d), last_intermediate_step)
               THEN /\ last_intermediate_step' = Some(current_step_key(d))
                    /\ phase_floor' = NewFloor(phase_floor, phase_ceiling, last_emitted)
                    /\ msg_progress' = DefaultProgress
                    /\ n_realloc' = n_realloc + 1
               ELSE UNCHANGED <<last_intermediate_step, phase_floor, msg_progress,
                                n_realloc>>
            /\ inter_keys' = NextInterKeys(inter_keys, Lower(d.current_step))
            /\ snap' = IF snap # None /\ SameSnapshot(data, d)
                       THEN Some([snap[1] EXCEPT !.run = @ + 1])
                       ELSE Some([floor |-> phase_floor', ceiling |-> phase_ceiling,
                                  native |-> msg_progress', splits |-> n_realloc',
                                  run |-> 1])
            /\ at' = "guard"
            /\ delivered' = TRUE
            /\ UNCHANGED <<result, reported, n_reports>>
       ELSE /\ IF _is_true_terminal(d)
               THEN \E channel_ok \in BOOLEAN :
                    /\ reported' = Some(Hundred)
                    /\ n_reports' = n_reports + 1
                    /\ delivered' = channel_ok
                    /\ IF _report(channel_ok) = "raises"
                       THEN \* inside the try of step 3: caught there
                            at' = "guard" /\ UNCHANGED result
                       ELSE /\ result' = Some(Result("terminal", d,
                                                      build_guidance("get_job_status", d),
                                                      FALSE))
                            /\ at' = "returned"
               ELSE /\ at' = "guard"
                    /\ delivered' = TRUE
                    /\ UNCHANGED <<result, reported, n_reports>>
            /\ snap' = None
            /\ UNCHANGED <<last_intermediate_step, phase_floor, msg_progress,
                           n_realloc, inter_keys>>
    /\ UNCHANGED <<params, twoCalls, followVars, approveVars, last_seq, cursor_primed, phase_ceiling, last_emitted,
                   msgObs, n_msg_fetch>>

\* faulty variant: a failed status fetch forgets the last known state
FetchStatusFail_LosesData(dt) ==
    /\ at = "status"
    /\ now' = now + dt
    /\ at' = "guard"
    /\ snap' = None
    /\ n_status_fetch' = n_status_fetch + 1
    /\ delivered' = TRUE
    /\ data' = EmptyData
    /\ UNCHANGED <<params, twoCalls, followVars, approveVars, jobVars, last_emitted, result, reported,
                   n_reports, n_realloc, n_status, inter_keys, msgObs,
                   n_msg_fetch>>

\* faulty variant: a failed status fetch is not caught and ends the call
FetchStatusFail_Raises(dt) ==
    /\ at = "status"
    /\ now' = now + dt
    /\ at' = "raised"
    /\ result' = Some(Raised)
    /\ snap' = None
    /\ n_status_fetch' = n_status_fetch + 1
    /\ delivered' = TRUE
    /\ UNCHANGED <<params, twoCalls, followVars, approveVars, jobVars, last_emitted, data, reported,
                   n_reports, n_realloc, n_status, inter_keys, msgObs,
                   n_msg_fetch>>

\* step 3 of either tool, the endpoint fails after dt seconds
FetchStatusFail(dt) ==
    /\ at = "status"
    /\ now' = now + dt
    /\ at' = "guard"
    /\ snap' = None
    /\ n_status_fetch' = n_status_fetch + 1
    /\ delivered' = TRUE
    /\ UNCHANGED <<params, twoCalls, followVars, approveVars, jobVars, last_emitted, data, result, reported,
                   n_reports, n_realloc, n_status, inter_keys, msgObs,
                   n_msg_fetch>>

\* wait_for_conversation, the emission that opens a cycle
ConvEmit(channel_ok) ==
    /\ tool = "wait_for_conversation"
    /\ at = "emit"
    /\ LET candidate == _synthetic_progress(now, expected_seconds)
           emit_pct == Max(candidate, last_emitted)
       IN  /\ last_emitted' = emit_pct
           /\ reported' = Some(emit_pct)
    /\ n_reports' = n_reports + 1
    /\ delivered' = channel_ok
    /\ IF _report(channel_ok) = "raises"
       THEN at' = "raised" /\ result' = Some(Raised)
       ELSE at' = "status" /\ UNCHANGED result
    /\ UNCHANGED <<params, twoCalls, followVars, approveVars, now, jobVars, data, statusObs, msgObs, n_msg_fetch,
                   n_status_fetch>>

\* wait_for_conversation, the conversation endpoint answers d after dt seconds
ConvFetchOk(d, dt) ==
    /\ tool = "wait_for_conversation"
    /\ at = "status"
    /\ now' = now + dt
    /\ data' = SetDefaultIds(d)
    /\ n_status' = n_status + 1
    /\ n_status_fetch' = n_status_fetch + 1
    /\ IF ConversationDone(d)
       THEN \E channel_ok \in BOOLEAN :
            /\ reported' = Some(Hundred)
            /\ n_reports' = n_reports + 1
            /\ delivered' = channel_ok
            /\ IF _report(channel_ok) = "raises"
               THEN \* inside the try of the fetch: caught there
                    at' = "guard" /\ UNCHANGED result
               ELSE /\ result' = Some(Result("terminal", data',
                                              build_guidance("get_conversation", data'),
                                              FALSE))
                    /\ at' = "returned"
       ELSE /\ at' = "guard"
            /\ delivered' = TRUE
            /\ UNCHANGED <<result, reported, n_reports>>
    /\ UNCHANGED <<params, twoCalls, followVars, approveVars, jobVars, last_emitted, n_realloc, inter_keys, snap,
                   msgObs, n_msg_fetch>>

\* remaining = deadline - time.monotonic()
Remaining == timeout_seconds - now

\* faulty variant: with no data the empty dict is returned
TimeoutData_NoSynthesis(tool_name, d) == d

\* the state a timeout returns: if not data: data = {...}
TimeoutData(tool_name, d) ==
    IF d = EmptyData
    THEN IF tool_name = "wait_for_job" THEN UnknownData ELSE UnknownConversation
    ELSE d

\* the builder the wait tool asks for its guidance
GuidanceTool(tool_name) ==
    IF tool_name = "wait_for_job" THEN "get_job_status" ELSE "get_conversation"

\* step 4 when the deadline has passed
TimeoutReturn ==
    /\ at = "guard"
    /\ Remaining <= 0
    /\ LET d == TimeoutData(tool, data)
       IN  result' = Some(Result("timeout", d, build_guidance(GuidanceTool(tool), d),
                                 TRUE))
    /\ at' = "returned"
    /\ UNCHANGED <<params, twoCalls, followVars, approveVars, now, jobVars, last_emitted, data, reported,
                   n_reports, statusObs, msgObs, n_msg_fetch, n_status_fetch,
                   delivered>>

\* faulty variant: the sleep is a whole poll interval
SleepTime_WholeInterval(interval, remaining) == interval

\* min(float(poll_interval), remaining)
SleepTime(interval, remaining) == Min(interval, remaining)

\* step 4 otherwise: asyncio.sleep(min(float(poll_interval), remaining))
Sleep ==
    /\ at = "guard"
    /\ Remaining > 0
    /\ now' = now + SleepTime(poll_interval, Remaining)
    /\ at' = IF tool = "wait_for_job" THEN "messages" ELSE "emit"
    /\ UNCHANGED <<params, twoCalls, followVars, approveVars, jobVars, last_emitted, data, result, reported,
                   n_reports, statusObs, msgObs, n_msg_fetch, n_status_fetch,
                   delivered>>

Next ==
    \/ \E resp \in MsgResponses, dt \in MsgFetchTimes : FetchMessagesOk(resp, dt)
    \/ \E dt \in MsgFetchTimes : FetchMessagesFail(dt)
    \/ \E channel_ok \in BOOLEAN : Emit(channel_ok)
    \/ \E d \in StatusResponses, dt \in FetchTimes : FetchStatusOk(d, dt)
    \/ \E dt \in FetchTimes : FetchStatusFail(dt)
    \/ \E channel_ok \in BOOLEAN : ConvEmit(channel_ok)
    \/ \E d \in ConvResponses, dt \in FetchTimes : ConvFetchOk(d, dt)
    \/ TimeoutReturn
    \/ Sleep

Spec == Init /\ [][Next]_vars

\* the event loop always resumes the call: every await of a fetch, a report
\* or a sleep completes, and the clock has moved by then
SpecLive == Init /\ [][Next]_vars /\ WF_vars(Next)

\* No rounding happens in the model of the float arithmetic: the width of
\* the phase range is a whole number of ten-thousandths of a percent.
ExactArithmetic ==
    /\ (phase_ceiling - phase_floor) % 100 = 0
    /\ ((phase_ceiling - phase_floor) * 8) % 10 = 0

----------------------------------------------------------------------------
(* The two scenarios of the specification's section 8: the backend answers *)
(* the successful status fetches of a wait_for_job call from a script.     *)

ScenarioTimeout == 120 * 5

TwoPhaseScript == <<
    JobState("processing", NoText, NoText),
    JobState("completed", ConfigGeneration, NoText),
    JobState("processing", NoText, NoText),
    JobState("completed", ConfigGeneration, NoText),
    JobState("completed", ValidationRun, NoText) >>

\* status fetches follow TwoPhaseScript; the message feed is free
NextTwoPhase ==
    \/ \E resp \in MsgResponses, dt \in MsgFetchTimes : FetchMessagesOk(resp, dt)
    \/ \E dt \in MsgFetchTimes : FetchMessagesFail(dt)
    \/ \E channel_ok \in BOOLEAN : Emit(channel_ok)
    \/ \E dt \in FetchTimes :
          /\ n_status < Len(TwoPhaseScript)
          /\ FetchStatusOk(TwoPhaseScript[n_status + 1], dt)
    \/ TimeoutReturn
    \/ Sleep

SpecTwoPhase == Start({"wait_for_job"}, {ScenarioTimeout}) /\ [][NextTwoPhase]_vars

SinglePhaseScript == <<
    JobState("queued", NoText, NoText),
    JobState("processing", NoText, NoText),
    JobState("processing", NoText, NoText),
    JobState("preview_complete", NoText, NoText) >>

\* native progress of the feed in each cycle, None for no value
SinglePhaseNative == <<None, Some(10), Some(55), Some(100)>>

\* the batches that deliver native progress v as their latest value
FeedBatches(v) ==
    IF v = None
    THEN {<<>>} \cup {<<Msg(s, EmptyDict)>> : s \in SeqValues}
    ELSE {<<Msg(s, Dict("progress" :> v[1]))>> : s \in SeqValues}
         \cup {<<MsgAlt(s, Dict("percent" :> v[1]))>> : s \in SeqValues}
         \cup {<<Msg(1, Dict("progress" :> 0)), Msg(s, Dict("value" :> v[1]))>> : s \in SeqValues}
         \cup {<<Msg(1, Dict("progress" :> v[1])), Msg(s, NotDict)>> : s \in SeqValues}

FeedResponses(v) ==
    [messages : FeedBatches(v), last_seq : {None} \cup {Some(s) : s \in SeqValues}]

\* status fetches follow SinglePhaseScript, message fetches deliver
\* SinglePhaseNative
NextSinglePhase ==
    \/ \E dt \in MsgFetchTimes :
          /\ n_status < Len(SinglePhaseNative)
          /\ \E resp \in FeedResponses(SinglePhaseNative[n_status + 1]) :
                FetchMessagesOk(resp, dt)
    \/ \E channel_ok \in BOOLEAN : Emit(channel_ok)
    \/ \E dt \in FetchTimes :
          /\ n_status < Len(SinglePhaseScript)
          /\ FetchStatusOk(SinglePhaseScript[n_status + 1], dt)
    \/ TimeoutReturn
    \/ Sleep

SpecSinglePhase == Start({"wait_for_job"}, {ScenarioTimeout}) /\ [][NextSinglePhase]_vars

----------------------------------------------------------------------------
(* Two wait_for_job calls on one event loop.  A call runs from one await   *)
(* to the next without interruption; at each await the other call may run. *)
(* Every response is given to the call in mem and to its run alone.        *)

CallCycles == MaxCycles - 1

TwoCallMsgResponses == {
    [messages |-> <<>>, last_seq |-> Some(1)],
    [messages |-> <<Msg(2, Dict("progress" :> 55))>>, last_seq |-> None] }

TwoCallStatusResponses == {
    JobState("processing", NoText, NoText),
    JobState("completed", ConfigGeneration, NoText),
    JobState("completed", TableMaking, NoText),
    JobState("failed", NoText, NoText) }

\* call i takes a step of its loop: shared is the step applied to the
\* locals it finds in mem, alone the same step applied to its run alone
CallStep(i, shared, alone) ==
    /\ mem' = Store(mem, i, shared)
    /\ solo' = [solo EXCEPT ![i] = alone]
    /\ UNCHANGED <<tool, at, now, params, jobVars, last_emitted, data, result,
                   reported, n_reports, statusObs, msgObs, n_msg_fetch,
                   n_status_fetch, delivered, followVars, approveVars>>

CallMessages(i) ==
    /\ Load(mem, i).at = "messages"
    /\ \/ \E resp \in TwoCallMsgResponses :
             CallStep(i, AfterMessages(Load(mem, i), resp), AfterMessages(solo[i], resp))
       \/ CallStep(i, AfterMessagesFailed(Load(mem, i)), AfterMessagesFailed(solo[i]))

CallEmit(i) ==
    /\ Load(mem, i).at = "emit"
    /\ CallStep(i, AfterEmit(Load(mem, i)), AfterEmit(solo[i]))

CallStatus(i) ==
    /\ Load(mem, i).at = "status"
    /\ \/ \E d \in TwoCallStatusResponses :
             CallStep(i, AfterStatus(Load(mem, i), d), AfterStatus(solo[i], d))
       \/ CallStep(i, AfterStatusFailed(Load(mem, i)), AfterStatusFailed(solo[i]))

CallGuard(i) ==
    /\ Load(mem, i).at = "guard"
    /\ \E expired \in BOOLEAN :
          /\ Load(mem, i).cycles + 1 >= CallCycles => expired
          /\ CallStep(i, AfterGuard(Load(mem, i), expired), AfterGuard(solo[i], expired))

NextTwoCalls ==
    \E i \in CallIds :
        \/ CallMessages(i)
        \/ CallEmit(i)
        \/ CallStatus(i)
        \/ CallGuard(i)

SpecTwoCalls == Start({"wait_for_job"}, {ScenarioTimeout}) /\ [][NextTwoCalls]_vars

----------------------------------------------------------------------------
(* build_guidance as a function of its arguments: tool holds the operation *)
(* identifier and data the response payload.  The wait calls of Spec, which *)
(* attach guidance to what they return, are part of the specification.     *)

GuidanceTools == BUILDERS \cup {"start_upload_interview", ""}

RefineConversationId == <<"r", "e", "f", "i", "n", "e", "_", "1">>
SessionJobId == <<"s", "e", "s", "s", "i", "o", "n", "_", "1">>

\* payloads of the conversation endpoints, well-formed and not
ConversationPayloads ==
    {[AbsentPayload EXCEPT !.status = s, !.user_reply_needed = r,
                           !.trigger_execution = t, !.messages = m,
                           !.next_step = n, !.conversation_id = cid,
                           !.session_id = SessionId, !.target_row_count = rows,
                           !.trigger_config_generation = t] :
        s \in {"", "processing", "completed", "execution_ready", "approved"},
        r \in BOOLEAN, t \in BOOLEAN,
        m \in {<<>>, <<Msg(1, EmptyDict)>>, <<Msg(1, EmptyDict), NotDictMessage>>},
        n \in {NoNextStep, NextStep("submit_preview", FALSE),
               NextStep("submit_preview", TRUE), NotDictNextStep},
        cid \in {ConversationId, RefineConversationId, NullText},
        rows \in {RowCount(0), RowCount(25), NotNumber}}

\* payloads of the job and upload endpoints, well-formed and not
JobPayloads ==
    {[AbsentPayload EXCEPT !.status = s, !.current_step = cs, !.job_id = jid,
                           !.run_type = run, !.cost_estimate = cost,
                           !.cost_usd = usd, !.matches = ms, !.job_info = info] :
        s \in {"queued", "processing", "completed", "preview_complete", "failed", "unknown"},
        cs \in {NoText, ConfigGeneration, ValidationRun, NullText},
        jid \in {JobId, SessionJobId, NullText},
        run \in {"", "preview"},
        cost \in {NoCostEstimate, CostEstimate(5), NotDictCostEstimate},
        usd \in {0, 7},
        ms \in {<<>>, <<Match(92, "cfg_xyz")>>, <<NotDictMatch>>},
        info \in {JobInfo(TRUE), NotDictJobInfo}}

\* payloads of a finished preview: the three places a cost can be in, the
\* config and the refine session
PreviewPayloads ==
    {[AbsentPayload EXCEPT !.status = "preview_complete", !.job_id = JobId,
                           !.session_id = SessionId, !.cost_estimate = cost,
                           !.estimated_cost_usd = est, !.cost_usd = usd,
                           !.config_id = cfg, !.refine_session_id = refine] :
        cost \in {NoCostEstimate, CostEstimate(4), NotDictCostEstimate},
        est \in {0, 6}, usd \in {0, 7},
        cfg \in {"", "cfg_abc"},
        refine \in {NoText, ConversationId}}

\* payloads of POST /uploads/confirm: the matches under either key, strong
\* and weak, and the interview the server starts itself
UploadPayloads ==
    {[AbsentPayload EXCEPT !.session_id = SessionId, !.matches = ms,
                           !.config_matches = cms, !.conversation_id = cid,
                           !.interview_auto_started = auto] :
        ms \in {<<>>, <<Match(92, "cfg_xyz"), Match(99, "cfg_old")>>,
                <<Match(85, "cfg_xyz")>>, <<Match(84, "cfg_xyz")>>},
        cms \in {<<>>, <<Match(90, "cfg_abc")>>},
        cid \in {NoText, ConversationId},
        auto \in BOOLEAN}

\* payloads of GET /jobs/{job_id}/messages
MessagesPayloads ==
    {[AbsentPayload EXCEPT !.job_id = JobId, !.messages = resp.messages,
                           !.last_seq = resp.last_seq] : resp \in MsgResponses}

GuidancePayloads ==
    ConversationPayloads \cup JobPayloads \cup PreviewPayloads
    \cup UploadPayloads \cup MessagesPayloads \cup {AbsentPayload}

InitGuidance ==
    /\ tool \in GuidanceTools
    /\ at = "guidance"
    /\ data \in GuidancePayloads
    /\ timeout_seconds = 0
    /\ poll_interval \in PollIntervals
    /\ expected_seconds = 0
    /\ approved_cost_usd = None
    /\ backend_status = "processing"
    /\ StartLocals

\* data["_guidance"] = build_guidance(tool_name, data)
BuildGuidance ==
    /\ at = "guidance"
    /\ result' = Some(Result("guidance", data, build_guidance(tool, data), FALSE))
    /\ at' = "built"
    /\ UNCHANGED <<tool, now, timeout_seconds, poll_interval, expected_seconds,
                   twoCalls, followVars, approveVars, jobVars, last_emitted, data, reported, n_reports,
                   statusObs, msgObs, n_msg_fetch, n_status_fetch, delivered>>

\* the guidance blocks the tools write themselves when the backend refuses
\* the request or the request is not sent
MissingConfigGuidance(d) ==
    Guidance("No validation config found for this session",
             <<Step("wait_for_job", "job_id" :> d.session_id)>>)

CostApprovalRequiredGuidance(d) ==
    Guidance("Approval blocked - approved_cost_usd not provided",
             <<Step("get_job_status", "job_id" :> d.job_id)>>)

CannotApproveGuidance(d) ==
    Guidance("Approval rejected - job is not in preview_complete state",
             <<Step("get_job_status", "job_id" :> d.job_id)>>)

ResultsNotFoundGuidance(d) ==
    Guidance("Results not found",
             <<Step("get_job_status", "job_id" :> d.job_id)>>)

ErrorGuidances(tool_name, d) ==
    CASE tool_name = "create_job" -> {MissingConfigGuidance(d)}
      [] tool_name = "approve_validation" ->
            {CostApprovalRequiredGuidance(d), CannotApproveGuidance(d)}
      [] tool_name = "get_results" -> {ResultsNotFoundGuidance(d)}
      [] OTHER -> {}

\* a tool returns an error value with the guidance block it wrote itself
ToolErrorReturn ==
    /\ at = "guidance"
    /\ \E g \in ErrorGuidances(tool, data) :
          result' = Some(Result("error", data, g, FALSE))
    /\ at' = "error"
    /\ UNCHANGED <<tool, now, timeout_seconds, poll_interval, expected_seconds,
                   twoCalls, followVars, approveVars, jobVars, last_emitted, data, reported, n_reports,
                   statusObs, msgObs, n_msg_fetch, n_status_fetch, delivered>>

NextGuidance == Next \/ BuildGuidance \/ ToolErrorReturn

SpecGuidance == (Init \/ InitGuidance) /\ [][NextGuidance]_vars

----------------------------------------------------------------------------
(* A client that polls get_job_messages and takes the since_seq of each    *)
(* call from the guidance of the previous response.  The backend answers   *)
(* with the messages after since_seq, with or without a top-level last_seq. *)

FollowCalls == MaxCycles + 1
FeedBound == MaxSeq + 1

\* the messages of the job with a sequence number above since_seq
FeedSince(since) ==
    LET lo == IF since = None THEN 0 ELSE since[1]
    IN  [i \in 1..(feed - lo) |-> Msg(lo + i, EmptyDict)]

\* the since_seq of the get_job_messages step of a guidance block
GuidedSince(guidance) ==
    IF \E i \in DOMAIN guidance.next_steps :
          /\ guidance.next_steps[i].tool = "get_job_messages"
          /\ "since_seq" \in DOMAIN guidance.next_steps[i].params
    THEN LET i == CHOOSE i \in DOMAIN guidance.next_steps :
                     /\ guidance.next_steps[i].tool = "get_job_messages"
                     /\ "since_seq" \in DOMAIN guidance.next_steps[i].params
         IN  Some(guidance.next_steps[i].params["since_seq"])
    ELSE None

InitFollow ==
    /\ tool = "get_job_messages"
    /\ at = "follow"
    /\ data = AbsentPayload
    /\ timeout_seconds = 0
    /\ poll_interval \in PollIntervals
    /\ expected_seconds = 0
    /\ approved_cost_usd = None
    /\ backend_status = "processing"
    /\ StartLocals

\* the job produces a message
BackendProduces ==
    /\ at = "follow"
    /\ feed < FeedBound
    /\ feed' = feed + 1
    /\ UNCHANGED <<tool, at, now, timeout_seconds, poll_interval, expected_seconds,
                   jobVars, last_emitted, data, result, reported, n_reports,
                   statusObs, msgObs, n_msg_fetch, n_status_fetch, delivered,
                   twoCalls, client_since, client_seen, replayed, approveVars>>

\* get_job_messages(job_id, since_seq = client_since), and the client takes
\* the parameters of its next call from the guidance
GetJobMessages(with_last_seq) ==
    /\ at = "follow"
    /\ n_msg_fetch < FollowCalls
    /\ LET messages == FeedSince(client_since)
           d == [AbsentPayload EXCEPT !.job_id = JobId, !.messages = messages,
                                      !.last_seq = IF with_last_seq THEN Some(feed)
                                                   ELSE None]
           guidance == build_guidance("get_job_messages", d)
           seqs == {messages[i].u_seq[1] : i \in DOMAIN messages}
       IN  /\ data' = d
           /\ result' = Some(Result("guidance", d, guidance, FALSE))
           /\ replayed' = (seqs \cap client_seen # {})
           /\ client_seen' = client_seen \cup seqs
           /\ client_since' = GuidedSince(guidance)
    /\ n_msg_fetch' = n_msg_fetch + 1
    /\ UNCHANGED <<tool, at, now, timeout_seconds, poll_interval, expected_seconds,
                   jobVars, last_emitted, reported, n_reports, statusObs, msgObs,
                   n_status_fetch, delivered, twoCalls, feed, approveVars>>

NextFollow ==
    \/ BackendProduces
    \/ \E with_last_seq \in BOOLEAN : GetJobMessages(with_last_seq)

SpecFollow == InitFollow /\ [][NextFollow]_vars

----------------------------------------------------------------------------
(* approve_validation (validation.py) and the client's _check (client.py)  *)

\* an HTTP response: its status code, whether the body is JSON, and whether
\* the body is the error envelope {"success": false, ...}
Response(status_code, json, success) ==
    [status_code |-> status_code, json |-> json, success |-> success]

\* what POST /jobs/{job_id}/validate can answer: the job is approved when it
\* is in preview_complete and rejected with 409 otherwise; a request can
\* also be refused for another reason, and a gateway can answer for the
\* backend with a body that is no JSON
ValidateResponses(status) ==
    (IF status = "preview_complete"
     THEN {Response(200, TRUE, TRUE)}
     ELSE {Response(409, TRUE, FALSE)})
    \cup {Response(402, TRUE, FALSE), Response(409, FALSE, FALSE),
          Response(502, FALSE, FALSE)}

\* HyperplexityClient._check: the data, an APIError with the status code, or
\* another exception (requests.HTTPError, JSONDecodeError)
_check(resp) ==
    IF ~resp.json
    THEN [kind |-> "Exception", status_code |-> 0]
    ELSE IF ~resp.success \/ resp.status_code \notin 200..299
    THEN [kind |-> "APIError", status_code |-> resp.status_code]
    ELSE [kind |-> "data", status_code |-> resp.status_code]

\* faulty variant: the request is sent whether or not the cost was given
CostConfirmed_Always(cost) == TRUE

\* if approved_cost_usd is None: refuse
CostConfirmed(cost) == cost # None

\* faulty variant: no status code is turned into an error value
Rejected_Never(outcome) == FALSE

\* except APIError as exc: if exc.status_code == 409
Rejected(outcome) == outcome.kind = "APIError" /\ outcome.status_code = 409

ApproveCosts == {None, Some(0), Some(4)}

InitApprove ==
    /\ tool = "approve_validation"
    /\ at = "approve"
    /\ data = [AbsentPayload EXCEPT !.job_id = JobId]
    /\ timeout_seconds = 0
    /\ poll_interval \in PollIntervals
    /\ expected_seconds = 0
    /\ approved_cost_usd \in ApproveCosts
    /\ backend_status \in {"preview_complete", "processing", "completed"}
    /\ StartLocals

\* approve_validation(job_id, approved_cost_usd)
ApproveValidation ==
    /\ at = "approve"
    /\ IF ~CostConfirmed(approved_cost_usd)
       THEN /\ result' = Some(Result("cost_approval_required", data,
                                     CostApprovalRequiredGuidance(data), FALSE))
            /\ at' = "error"
            /\ UNCHANGED <<requests, validate_response, backend_status>>
       ELSE \E resp \in ValidateResponses(backend_status) :
              /\ requests' = Append(requests, [approved_cost_usd |-> approved_cost_usd])
              /\ validate_response' = Some(resp)
              /\ backend_status' = IF resp.status_code = 200 THEN "queued"
                                   ELSE backend_status
              /\ IF _check(resp).kind = "data"
                 THEN /\ result' = Some(Result("approved", data,
                                               build_guidance("approve_validation", data),
                                               FALSE))
                      /\ at' = "built"
                 ELSE IF Rejected(_check(resp))
                 THEN /\ result' = Some(Result("cannot_approve", data,
                                               CannotApproveGuidance(data), FALSE))
                      /\ at' = "error"
                 ELSE /\ result' = Some(Raised)
                      /\ at' = "raised"
    /\ UNCHANGED <<tool, now, timeout_seconds, poll_interval, expected_seconds,
                   jobVars, last_emitted, data, reported, n_reports, statusObs,
                   msgObs, n_msg_fetch, n_status_fetch, delivered, twoCalls,
                   followVars, approved_cost_usd>>

\* the caller calls approve_validation again
ApproveAgain ==
    /\ at \in {"error", "built", "raised"}
    /\ Len(requests) < MaxCycles
    /\ n_status_fetch < MaxCycles
    /\ at' = "approve"
    /\ result' = None
    /\ validate_response' = None
    /\ approved_cost_usd' \in ApproveCosts
    /\ n_status_fetch' = n_status_fetch + 1
    /\ UNCHANGED <<tool, now, timeout_seconds, poll_interval, expected_seconds,
                   jobVars, last_emitted, data, reported, n_reports, statusObs,
                   msgObs, n_msg_fetch, delivered, twoCalls, followVars,
                   requests, backend_status>>

\* the job moves on at the backend
BackendAdvances ==
    /\ at = "approve"
    /\ backend_status \in {"processing", "queued"}
    /\ backend_status' = IF backend_status = "processing" THEN "preview_complete"
                         ELSE "completed"
    /\ UNCHANGED <<tool, at, now, timeout_seconds, poll_interval, expected_seconds,
                   jobVars, last_emitted, data, result, reported, n_reports,
                   statusObs, msgObs, n_msg_fetch, n_status_fetch, delivered,
                   twoCalls, followVars, approved_cost_usd, requests,
                   validate_response>>

NextApprove == ApproveValidation \/ ApproveAgain \/ BackendAdvances

SpecApprove == InitApprove /\ [][NextApprove]_vars

----------------------------------------------------------------------------
(* Claims *)

Returned(kind) == result # None /\ result[1].kind = kind

\* the classification as the specification words it
HasIntermediateMarker(d) ==
    \E s \in INTERMEDIATE_STEPS : Contains(s, Lower(OrText(d.current_step, d.step)))
TrueTerminalState(d) ==
    \/ d.status \in {"preview_complete", "failed"}
    \/ d.status = "completed" /\ ~HasIntermediateMarker(d)

\* C1: the progress values one wait call emits are non-decreasing, for
\* wait_for_job and wait_for_conversation, the final 100 included.
C1_Monotone ==
    [][reported # None => (reported' # None /\ reported'[1] >= reported[1])]_vars

\* the native estimate fell and the emission stayed at the previous value
C1_Witness ==
    /\ tool = "wait_for_job"
    /\ at = "status"
    /\ n_reports >= 3
    /\ _scale_to_range(Max(msg_progress, DefaultProgress), phase_floor, phase_ceiling)
           < last_emitted
    /\ reported = Some(last_emitted)

\* C2: when a fetched status is true-terminal, wait_for_job emits exactly
\* 100 and returns in that cycle, whatever the range, the estimate and the
\* last emitted value are.
C2_TerminalExact ==
    (tool = "wait_for_job" /\ n_status > 0 /\ TrueTerminalState(data))
        => /\ at = "returned"
           /\ Returned("terminal")
           /\ result[1].data = data
           /\ reported = Some(Hundred)

\* a terminal return after a phase split, from an emission below 99
C2_Witness ==
    /\ tool = "wait_for_job"
    /\ Returned("terminal")
    /\ data.status = "failed"
    /\ n_realloc >= 1
    /\ phase_floor > InitialFloor
    /\ reported = Some(Hundred)

C4_RangeInvariant ==
    tool = "wait_for_job"
        => /\ 0 <= phase_floor
           /\ phase_floor < phase_ceiling
           /\ phase_ceiling <= 99 * Unit

\* the clip to ceiling - 1 acted
C4_Witness ==
    /\ n_realloc >= 2
    /\ phase_floor = phase_ceiling - Unit
    /\ last_emitted + Unit \div 2 > phase_floor

\* C5 as stated: after the N-th of N equal intermediate snapshots in
\* consecutive cycles, floor, ceiling and native estimate equal those after
\* the first.
C5_AsStated ==
    (tool = "wait_for_job" /\ at = "guard" /\ snap # None)
        => /\ phase_floor = snap[1].floor
           /\ phase_ceiling = snap[1].ceiling
           /\ msg_progress = snap[1].native

\* C5 amended: the repeated snapshot triggers no further reallocation:
\* floor, ceiling and the number of reallocations after the N-th snapshot
\* equal those after the first, and handling a repeated snapshot leaves the
\* native estimate as the message feed set it.
C5_StaleSnapshot ==
    /\ [](tool = "wait_for_job" /\ at = "guard" /\ snap # None
             => /\ phase_floor = snap[1].floor
                /\ phase_ceiling = snap[1].ceiling
                /\ n_realloc = snap[1].splits)
    /\ [][(at = "status" /\ snap' # None /\ snap'[1].run >= 2)
             => msg_progress' = msg_progress]_vars

\* the third of three equal snapshots, the feed having moved the estimate
C5_Witness ==
    /\ at = "guard"
    /\ snap # None
    /\ snap[1].run >= 3
    /\ msg_progress # snap[1].native
    /\ n_realloc = 1

\* the distinct step values among the intermediate snapshots seen
DistinctSteps == {inter_keys[i] : i \in DOMAIN inter_keys}

\* C6 as stated: the number of reallocations never exceeds the number of
\* distinct lower-cased step values seen in intermediate snapshots.
C6_AsStated == n_realloc <= Cardinality(DistinctSteps)

\* C6 amended: the reallocation is performed once per run of equal step
\* values: the number of reallocations never exceeds the number of times
\* the lower-cased step value of an intermediate snapshot differs from that
\* of the intermediate snapshot before it (the first one counted).
C6_OncePerRun == n_realloc <= Len(inter_keys)

\* a step value came back after another one and split again
C6_Witness ==
    /\ Len(inter_keys) = 3
    /\ inter_keys[1] = inter_keys[3]
    /\ n_realloc = 3

\* C7: the first successful message fetch is made with no since_seq, yields
\* no visible message whatever the response holds, sets the cursor to the
\* last_seq the response reports, and leaves the native estimate alone.
C7_CursorPriming ==
    [][(tool = "wait_for_job" /\ ~cursor_primed /\ cursor_primed')
          => /\ since_sent' = None
             /\ n_visible' = 0
             /\ rx_seq' # None => last_seq' = rx_seq'
             /\ msg_progress' = msg_progress]_vars

\* the first response held two messages and a sequence number
C7_Witness ==
    /\ at = "emit"
    /\ n_reports = 0
    /\ cursor_primed
    /\ rx_count = 2
    /\ n_visible = 0
    /\ rx_seq # None
    /\ last_seq = rx_seq
    /\ msg_progress = DefaultProgress

\* C8: the cursor never decreases within one call, and every fetch made
\* once the cursor is set passes it as since_seq.  (since_sent is the
\* cursor as it was when the fetch was made.)
C8_CursorMonotone ==
    (tool = "wait_for_job" /\ at = "emit" /\ since_sent # None)
        => (last_seq # None /\ last_seq[1] >= since_sent[1])

\* C9: in the two-phase scenario exactly one reallocation is performed, no
\* value is lower than one before it, the call does not return on either
\* Config Generation snapshot, and it returns on the fifth snapshot after
\* emitting 100.
C9_TwoPhase ==
    /\ [](/\ n_realloc = (IF n_status >= 2 THEN 1 ELSE 0)
          /\ n_status < 5 => ~Returned("terminal")
          /\ n_status = 5 => (Returned("terminal") /\ reported = Some(Hundred)
                              /\ result[1].data = TwoPhaseScript[5]))
    /\ [][reported # None => (reported' # None /\ reported'[1] >= reported[1])]_vars

\* the scenario ran to its end
C9_Witness ==
    /\ n_status = 5
    /\ Returned("terminal")
    /\ n_realloc = 1
    /\ phase_floor > InitialFloor

\* C10: in the single-phase scenario the emitted values strictly increase,
\* the last one is exactly 100, and the range stays [0, 99].
C10_SinglePhase ==
    /\ [](/\ n_realloc = 0
          /\ phase_floor = InitialFloor
          /\ phase_ceiling = InitialCeiling
          /\ n_status = 4 => (Returned("terminal") /\ reported = Some(Hundred)
                              /\ n_reports = 5))
    /\ [][(reported # None /\ n_reports' > n_reports)
             => reported'[1] > reported[1]]_vars

\* the scenario ran to its end
C10_Witness ==
    /\ n_status = 4
    /\ Returned("terminal")
    /\ n_reports = 5
    /\ last_emitted = 98 * Unit + Unit \div 100

\* the state fetched in this step is intermediate-complete, in the
\* specification's words
IntermediateState(d) == d.status = "completed" /\ HasIntermediateMarker(d)

C12_CycleOrder ==
    /\ [](tool = "wait_for_job" /\ at \in {"messages", "emit", "status", "guard", "returned"}
            => /\ at \in {"messages", "guard"}
                   => (n_msg_fetch = n_reports /\ n_reports = n_status_fetch)
               /\ at = "emit"
                   => (n_msg_fetch = n_reports + 1 /\ n_reports = n_status_fetch)
               /\ at = "status"
                   => (n_msg_fetch = n_reports /\ n_reports = n_status_fetch + 1)
               /\ at = "returned"
                   => /\ n_msg_fetch = n_status_fetch
                      /\ n_reports = n_msg_fetch + (IF Returned("terminal") THEN 1 ELSE 0))
    /\ [][tool = "wait_for_job"
            => /\ at = "messages" => at' = "emit"
               /\ at = "emit" => at' = "status"
               /\ at = "status" => at' \in {"guard", "returned"}
               /\ at = "guard" => at' \in {"messages", "returned"}]_vars

\* two cycles were completed with every message fetch failing
C12_Witness ==
    /\ tool = "wait_for_job"
    /\ at = "guard"
    /\ ~cursor_primed
    /\ n_msg_fetch = 2
    /\ n_reports = 2
    /\ n_status_fetch = 2

\* C13: wait_for_job makes a terminal return in a step iff the step is a
\* successful status fetch of a true-terminal state; steps 1 and 2 never
\* return and never emit more than 99, whatever the message feed holds.
C13_TerminalIffStatus ==
    /\ [](tool = "wait_for_job" /\ Returned("terminal")
            => (result[1].data = data /\ TrueTerminalState(data)))
    /\ [][tool = "wait_for_job"
            => /\ (~Returned("terminal") /\ Returned("terminal")')
                   <=> (at = "status" /\ n_status' = n_status + 1
                        /\ TrueTerminalState(data'))
               /\ at \in {"messages", "emit"}
                   => (result' = None /\ (reported' # None => reported'[1] <= 99 * Unit))]_vars

\* a terminal return although the message endpoint failed in every cycle
C13_Witness ==
    /\ tool = "wait_for_job"
    /\ Returned("terminal")
    /\ ~cursor_primed
    /\ n_msg_fetch = 2
    /\ n_status = 1

\* C14: a successfully fetched intermediate-complete state never makes
\* wait_for_job return: the call goes on to the timeout check, and no
\* terminal result carries an intermediate-complete state.
C14_IntermediateNeverReturns ==
    /\ [](tool = "wait_for_job" /\ Returned("terminal")
            => ~IntermediateState(result[1].data))
    /\ [][(tool = "wait_for_job" /\ at = "status" /\ n_status' = n_status + 1
           /\ IntermediateState(data'))
            => (at' = "guard" /\ result' = None)]_vars

\* the cycle after an intermediate-complete state with its marker in the
\* step field has begun
C14_Witness ==
    /\ tool = "wait_for_job"
    /\ at = "messages"
    /\ n_status = 1
    /\ data.status = "completed"
    /\ data.step = ClaimExtraction
    /\ n_realloc = 1
    /\ result = None

\* C15: a failed message fetch leaves the native estimate, the cursor and
\* the primed flag unchanged and the call goes on to the emission; a failed
\* status fetch leaves the phase range, the remembered split step and the
\* last known job state unchanged and the call goes on to the timeout check.
C15_FailureAbsorbed ==
    [][tool = "wait_for_job"
         => /\ (at = "messages" /\ msg_failed')
                => (UNCHANGED <<msg_progress, last_seq, cursor_primed>>
                    /\ at' = "emit" /\ result' = None)
            /\ (at = "status" /\ n_status_fetch' = n_status_fetch + 1
                /\ n_status' = n_status)
                => (UNCHANGED <<phase_floor, phase_ceiling, last_intermediate_step, data>>
                    /\ at' = "guard" /\ result' = None)]_vars

\* the message fetch of the third cycle failed after the status fetch of the
\* second had failed: estimate, cursor and job state are those of before
C15_Witness ==
    /\ tool = "wait_for_job"
    /\ at = "emit"
    /\ msg_failed
    /\ msg_progress = 55
    /\ last_seq # None
    /\ n_status = 1
    /\ n_status_fetch = 2
    /\ data.status = "completed"
    /\ n_realloc = 1

\* C16: a report call that fails never ends the call with an exception and
\* has the effect of one that succeeds: the value is computed and kept as
\* last_emitted, the call moves on to the status fetch, and the final report
\* of 100 is followed by the terminal return.
C16_ReportFailureHarmless ==
    /\ [](at # "raised" /\ ~Returned("raised"))
    /\ [][(n_reports' = n_reports + 1 /\ ~delivered')
            => /\ reported' # None
               /\ at = "emit"
                   => (at' = "status" /\ result' = None
                       /\ reported' = Some(last_emitted')
                       /\ last_emitted' >= last_emitted
                       /\ UNCHANGED <<jobVars, data>>)
               /\ at = "status"
                   => (at' = "returned" /\ Returned("terminal")'
                       /\ reported' = Some(Hundred)
                       /\ result'[1].data = data')]_vars

\* a terminal return of wait_for_job whose final report of 100 failed
C16_Witness ==
    /\ tool = "wait_for_job"
    /\ Returned("terminal")
    /\ ~delivered
    /\ n_reports = 3
    /\ reported = Some(Hundred)

\* C17: a timeout return is made only from the timeout check, after the
\* status fetch of the current cycle and with at least one cycle completed;
\* a sleep ends no later than the deadline and lasts at most poll_interval.
C17_TimeoutAtBoundary ==
    /\ [][(~Returned("timeout") /\ Returned("timeout")')
            => /\ at = "guard"
               /\ now >= timeout_seconds
               /\ n_status_fetch >= 1
               /\ n_reports >= n_status_fetch
               /\ tool = "wait_for_job" => n_msg_fetch = n_status_fetch]_vars
    /\ [][(at = "guard" /\ at' \in {"messages", "emit"})
            => /\ now < timeout_seconds
               /\ now' > now
               /\ now' <= timeout_seconds
               /\ now' - now <= poll_interval]_vars

\* a sleep that was cut short at the deadline
C17_Witness ==
    /\ at \in {"messages", "emit"}
    /\ now = timeout_seconds
    /\ timeout_seconds > 0
    /\ n_status_fetch >= 1
    /\ timeout_seconds % poll_interval # 0

\* C18: under every interleaving of two wait_for_job calls at their
\* suspension points, the cursor, the primed flag, the phase range, the
\* remembered split step and the emitted sequence of each call are those of
\* the call run alone against the same responses, and a step of one call
\* leaves the locals of the other unchanged.
C18_NoInterference ==
    /\ [](\A i \in CallIds : Load(mem, i) = solo[i])
    /\ [][\A i \in CallIds :
            Load(mem, i)' # Load(mem, i)
                => \A j \in CallIds \ {i} : Load(mem, j)' = Load(mem, j)]_vars

\* both calls have split their range, on different steps and from
\* different emissions, with their steps interleaved
C18_Witness ==
    /\ Load(mem, 1).at = "guard"
    /\ Load(mem, 2).at = "status"
    /\ Load(mem, 1).cycles = 1
    /\ Load(mem, 1).last_intermediate_step = Some(Lower(ConfigGeneration))
    /\ Load(mem, 2).last_intermediate_step = Some(Lower(TableMaking))
    /\ Load(mem, 1).phase_floor # Load(mem, 2).phase_floor
    /\ Load(mem, 1).last_seq # Load(mem, 2).last_seq
    /\ Len(Load(mem, 2).emitted) = 2

\* the list of next steps holds a step for this tool
HasStep(guidance, tool_name) ==
    \E i \in DOMAIN guidance.next_steps : guidance.next_steps[i].tool = tool_name

\* a guidance block: a summary and a list of next steps, nothing else
WellFormedGuidance(guidance) ==
    /\ DOMAIN guidance = {"summary", "next_steps"}
    /\ guidance.summary # ""
    /\ DOMAIN guidance.next_steps = 1..Len(guidance.next_steps)

\* C19: build_guidance returns a summary and a list of next steps for every
\* identifier and payload; an identifier that is no key of the dispatch
\* table gives the no-guidance result, a builder that raises gives the
\* degraded result, both with no next steps; and a wait call whose guidance
\* builder raises still returns.
C19_BuildGuidanceTotal ==
    /\ at # "raised"
    /\ at \in {"built", "returned"} => WellFormedGuidance(result[1].guidance)
    /\ (at = "built" /\ tool \notin BUILDERS)
        => result[1].guidance = Guidance("No guidance defined for tool", <<>>)
    /\ (at = "built" /\ tool \in BUILDERS /\ Builder(tool, data).raised)
        => result[1].guidance = Guidance("Guidance error", <<>>)
    /\ (at = "built" /\ tool \in BUILDERS /\ ~Builder(tool, data).raised)
        => result[1].guidance.summary = Builder(tool, data).summary

\* wait_for_job returned a completed job whose current_step is null: the
\* builder raised on it and the result carries the degraded guidance
C19_Witness ==
    /\ tool = "wait_for_job"
    /\ Returned("terminal")
    /\ data.current_step = NullText
    /\ result[1].guidance = Guidance("Guidance error", <<>>)

\* C20: get_conversation guidance for a response with user_reply_needed
\* true holds a send_conversation_reply step and no get_conversation or
\* wait_for_conversation step, whatever the status is.
C20_AsStated ==
    (at = "built" /\ tool = "get_conversation" /\ data.user_reply_needed)
        => /\ HasStep(result[1].guidance, "send_conversation_reply")
           /\ ~HasStep(result[1].guidance, "get_conversation")
           /\ ~HasStep(result[1].guidance, "wait_for_conversation")

\* C20, the part the code guarantees: get_conversation guidance for a
\* response with user_reply_needed true never holds a get_conversation or
\* wait_for_conversation step, whatever the status is; it holds the
\* send_conversation_reply step when messages is empty or ends with an
\* object, and is the degraded result with no next steps when the last
\* element of messages is not an object (messages[-1].get raises).
C20_ReplyPriority ==
    (at = "built" /\ tool = "get_conversation" /\ data.user_reply_needed)
        => /\ ~HasStep(result[1].guidance, "get_conversation")
           /\ ~HasStep(result[1].guidance, "wait_for_conversation")
           /\ IF data.messages = <<>> \/ data.messages[Len(data.messages)].isdict
              THEN /\ HasStep(result[1].guidance, "send_conversation_reply")
                   /\ Len(result[1].guidance.next_steps) = 1
              ELSE result[1].guidance = Guidance("Guidance error", <<>>)

\* a reply is needed while the status is processing
C20_Witness ==
    /\ at = "built"
    /\ tool = "get_conversation"
    /\ data.user_reply_needed
    /\ data.status = "processing"
    /\ data.messages # <<>>
    /\ HasStep(result[1].guidance, "send_conversation_reply")
    /\ Len(result[1].guidance.next_steps) = 1

\* what assert_guidance asks of a guidance block
StructurallyValid(guidance) ==
    /\ guidance.summary # ""
    /\ DOMAIN guidance.next_steps = 1..Len(guidance.next_steps)
    /\ \A i \in DOMAIN guidance.next_steps :
          {"tool", "params", "note"} \subseteq DOMAIN guidance.next_steps[i]

\* C21: every guidance block attached to a tool response has a non-empty
\* summary and a list of next steps whose elements all have the keys tool,
\* params and note: for every operation of the dispatch table and every
\* payload, for the blocks the tools write on their error values, and for
\* the terminal and timeout returns of wait_for_job and
\* wait_for_conversation.
C21_GuidanceStructure ==
    at \in {"built", "error", "returned"} => StructurallyValid(result[1].guidance)

\* get_job_status guidance for preview_complete with a refine session: two
\* next steps, both with tool, params and note
C21_Witness ==
    /\ at = "built"
    /\ tool = "get_job_status"
    /\ data.status = "preview_complete"
    /\ Len(result[1].guidance.next_steps) = 2
    /\ StructurallyValid(result[1].guidance)

\* the step text holds none of the intermediate markers
NoMarkerIn(text) == ~\E m \in INTERMEDIATE_STEPS : Contains(m, Lower(text))

\* C22: get_job_status guidance is decided by status: queued and processing
\* give a get_job_status step, completed with no intermediate marker in
\* current_step gives a get_results step, failed gives no next steps.
C22_AsStated ==
    (at = "built" /\ tool = "get_job_status")
        => /\ data.status \in {"queued", "processing"}
                => HasStep(result[1].guidance, "get_job_status")
           /\ (data.status = "completed" /\ NoMarkerIn(data.current_step))
                => HasStep(result[1].guidance, "get_results")
           /\ data.status = "failed" => result[1].guidance.next_steps = <<>>

\* C22, the part the code guarantees: the same, for a completed job only
\* when current_step is absent or a text; a current_step of null, where
\* .lower() raises, gives the degraded result with no next steps.
C22_StatusDecides ==
    (at = "built" /\ tool = "get_job_status")
        => /\ data.status \in {"queued", "processing"}
                => HasStep(result[1].guidance, "get_job_status")
           /\ (data.status = "completed" /\ NoMarkerIn(data.current_step))
                => IF data.current_step = NullText
                   THEN result[1].guidance = Guidance("Guidance error", <<>>)
                   ELSE HasStep(result[1].guidance, "get_results")
           /\ data.status = "failed" => result[1].guidance.next_steps = <<>>

\* a completed validation run, no marker in its step: results are next
C22_Witness ==
    /\ at = "built"
    /\ tool = "get_job_status"
    /\ data.status = "completed"
    /\ data.current_step = ValidationRun
    /\ HasStep(result[1].guidance, "get_results")
    /\ ~HasStep(result[1].guidance, "get_job_status")

\* the first truthy cost of the payload, 0 when there is none
FirstCost(d) ==
    IF d.cost_estimate.estimated_total_cost_usd # 0
    THEN d.cost_estimate.estimated_total_cost_usd
    ELSE IF d.estimated_cost_usd # 0
    THEN d.estimated_cost_usd
    ELSE d.cost_usd

UploadMatches(d) == IF d.matches # <<>> THEN d.matches ELSE d.config_matches

\* C24: confirm_upload guidance: when the first match has match_score >=
\* 0.85 the next steps hold create_job with that match's config_id, and when
\* there is no match they hold start_upload_interview.
C24_AsStated ==
    (at = "built" /\ tool = "confirm_upload")
        => /\ (UploadMatches(data) # <<>> /\ UploadMatches(data)[1].isdict
               /\ UploadMatches(data)[1].match_score >= 85)
                => \E i \in DOMAIN result[1].guidance.next_steps :
                      LET step == result[1].guidance.next_steps[i]
                      IN  /\ step.tool = "create_job"
                          /\ "config_id" \in DOMAIN step.params
                          /\ step.params["config_id"] = UploadMatches(data)[1].config_id
           /\ UploadMatches(data) = <<>>
                => HasStep(result[1].guidance, "start_upload_interview")

\* C25: get_conversation guidance for a response whose next_step.action is
\* submit_preview, with no reply needed and a status other than processing,
\* holds a create_job step.
C25_AsStated ==
    (at = "built" /\ tool = "get_conversation" /\ ~data.user_reply_needed
     /\ data.status # "processing" /\ data.next_step.isdict
     /\ data.next_step.action = "submit_preview")
        => HasStep(result[1].guidance, "create_job")

\* the operations that start a job
JobStartingTools == {"create_job", "approve_validation", "update_table", "reference_check"}

\* C26: guidance for each job-starting operation holds a get_job_status
\* step.
C26_AsStated ==
    (at = "built" /\ tool \in JobStartingTools)
        => HasStep(result[1].guidance, "get_job_status")

\* the guidance gives since_seq as the top-level last_seq when there is one,
\* else as the sequence number of the last message
SinceSeqRule ==
    /\ data.last_seq # None => client_since = data.last_seq
    /\ (data.last_seq = None /\ data.messages # <<>>)
          => client_since = data.messages[Len(data.messages)].u_seq

\* C27: get_job_messages guidance gives the next get_job_messages call the
\* top-level last_seq as since_seq when it is present and the last
\* message's sequence number only when it is absent, and a client that
\* follows the guidance call after call never receives again a message it
\* has already received.
C27_AsStated ==
    (at = "follow" /\ result # None) => (SinceSeqRule /\ ~replayed)

\* C27, the part the code guarantees: the since_seq of the guidance
C27_SinceSeq ==
    (at = "follow" /\ result # None) => SinceSeqRule

TurnComplete(d) ==
    \/ d.user_reply_needed
    \/ d.trigger_execution
    \/ d.status \notin {"", "processing", "queued", "in_progress"}

\* C28: wait_for_conversation returns a non-timeout result, after emitting
\* 100, in the first cycle whose successfully fetched state has
\* user_reply_needed or trigger_execution true or a status outside
\* {processing, queued, in_progress}; after every other fetch, one with no
\* status field or a failed one included, it goes on to the timeout check,
\* and a timeout returns the last fetched state (the synthesized unknown
\* state when no fetch succeeded) with the _wait_timeout marker.
C28_ConversationReturn ==
    /\ [][(tool = "wait_for_conversation" /\ at = "status" /\ at' # "status")
            => IF n_status' = n_status + 1 /\ TurnComplete(data')
               THEN /\ at' = "returned"
                    /\ result'[1].kind = "terminal"
                    /\ ~result'[1].wait_timeout
                    /\ result'[1].data = data'
                    /\ reported' = Some(Hundred)
               ELSE /\ at' = "guard"
                    /\ result' = None
                    /\ reported' = reported]_vars
    /\ []((tool = "wait_for_conversation" /\ result = None /\ n_status >= 1)
            => ~TurnComplete(data))
    /\ []((tool = "wait_for_conversation" /\ Returned("timeout"))
            => /\ result[1].wait_timeout
               /\ now >= timeout_seconds
               /\ reported # Some(Hundred)
               /\ IF n_status >= 1
                  THEN result[1].data = data /\ ~TurnComplete(data)
                  ELSE result[1].data = UnknownConversation)

\* a wait that saw a state with no status field, then a failed fetch, and
\* timed out with that state
C28_Witness ==
    /\ tool = "wait_for_conversation"
    /\ Returned("timeout")
    /\ n_status = 1
    /\ n_status_fetch = 2
    /\ data.status = ""
    /\ result[1].data = data

\* C30: the phase classification of a job state is a partition into
\* in_progress, intermediate_complete and true_terminal: intermediate iff
\* the status is completed and the lower-cased step text holds a marker,
\* terminal iff the status is preview_complete or failed or it is completed
\* and no marker matches (an absent step included), in progress otherwise.
C30_Partition ==
    tool = "wait_for_job"
        => LET intermediate == _is_intermediate_complete(data)
               terminal == _is_true_terminal(data)
               in_progress == ~intermediate /\ ~terminal
           IN  /\ ~(intermediate /\ terminal)
               /\ intermediate <=> (data.status = "completed" /\ HasIntermediateMarker(data))
               /\ terminal <=> \/ data.status \in {"preview_complete", "failed"}
                               \/ data.status = "completed" /\ ~HasIntermediateMarker(data)
               /\ in_progress <=> data.status \notin {"completed", "preview_complete", "failed"}

\* a completed state whose marker is in step, with no current_step, was
\* fetched and classified intermediate: the call went on
C30_Witness ==
    /\ tool = "wait_for_job"
    /\ at = "guard"
    /\ data.status = "completed"
    /\ data.current_step = NoText
    /\ data.step # NoText
    /\ _is_intermediate_complete(data)
    /\ result = None

\* C31: a reallocation sets the floor to max(floor + 0.8 * (ceiling - floor),
\* last_emitted + 0.5), clipped from above to ceiling - 1: the first one,
\* from [0, 99] with last_emitted below 78.7, gives [79.2, 99], and a
\* reallocation that finds the floor at ceiling - 1 = 98 leaves it at 98.
C31_Reallocation ==
    [][n_realloc' = n_realloc + 1
        => LET width == phase_ceiling - phase_floor
               spend == phase_floor + (8 * width) \div 10
               no_regress == last_emitted + 5 * (Unit \div 10)
               room == phase_ceiling - Unit
               unclipped == IF spend >= no_regress THEN spend ELSE no_regress
           IN  /\ phase_floor' = IF unclipped <= room THEN unclipped ELSE room
               /\ (n_realloc = 0 /\ last_emitted < 787 * (Unit \div 10))
                    => /\ phase_floor' = 792 * (Unit \div 10)
                       /\ phase_ceiling' = 99 * Unit
               /\ phase_floor = 98 * Unit => phase_floor' = 98 * Unit]_vars

\* the floor reached 98 with the first reallocation (98.02 was emitted on
\* the range [98, 99] after it) and a second reallocation left it there
C31_Witness ==
    /\ n_realloc = 2
    /\ phase_floor = 98 * Unit
    /\ phase_ceiling = 99 * Unit
    /\ last_emitted = 98 * Unit + 2 * (Unit \div 100)

\* C32: every step-2 emission of wait_for_job is max(last_emitted, floor +
\* clamp(max(native, 2), 0, 99) / 100 * (ceiling - floor)): a native value
\* below 2, 0 and negatives included, counts as 2, one above 99 as 99, and
\* the scaled value lies inside [floor, ceiling] of the current phase.
C32_Emission ==
    [][(tool = "wait_for_job" /\ at = "emit" /\ at' # "emit")
        => LET native == IF msg_progress < 2 THEN 2
                         ELSE IF msg_progress > 99 THEN 99
                         ELSE msg_progress
               percent == (phase_ceiling - phase_floor) \div 100
               scaled == phase_floor + native * percent
               emitted == IF scaled >= last_emitted THEN scaled ELSE last_emitted
           IN  /\ reported' = Some(emitted)
               /\ last_emitted' = emitted
               /\ phase_floor <= scaled
               /\ scaled <= phase_ceiling]_vars

\* after a reallocation to [79.2, 99] a negative native value was emitted
\* as 2 percent of the new range: 79.596
C32_Witness ==
    /\ tool = "wait_for_job"
    /\ at = "status"
    /\ msg_progress < 0
    /\ phase_floor = 792 * (Unit \div 10)
    /\ reported = Some(79596 * (Unit \div 1000))
    /\ last_emitted = 79596 * (Unit \div 1000)

\* the payload _extract_progress reads from a message
MessagePayload(msg) ==
    IF ~msg.message_data.isdict \/ DOMAIN msg.message_data.kv # {}
    THEN msg.message_data
    ELSE msg.data

\* the message carries one of the progress keys in a dict payload
HasProgressKey(msg) ==
    /\ MessagePayload(msg).isdict
    /\ DOMAIN MessagePayload(msg).kv \cap {"progress", "percent", "progress_percent", "value"} # {}

\* the value under the first progress key, in the priority of the keys
ProgressValue(msg) ==
    LET kv == MessagePayload(msg).kv
    IN  IF "progress" \in DOMAIN kv THEN kv["progress"]
        ELSE IF "percent" \in DOMAIN kv THEN kv["percent"]
        ELSE IF "progress_percent" \in DOMAIN kv THEN kv["progress_percent"]
        ELSE kv["value"]

\* C33: the native estimate after a message fetch is the value of the
\* latest message of the visible batch whose payload holds one of the keys
\* progress, percent, progress_percent, value, in that priority; a latest
\* value of 0 is taken as 0, and an empty batch or one with no such key
\* leaves the estimate unchanged (as does a value that is not a number,
\* where float() raises inside the try of step 1).
C33_LatestWins ==
    [][(tool = "wait_for_job" /\ at = "messages" /\ ~msg_failed')
        => \A resp \in MsgResponses, dt \in MsgFetchTimes :
              (resp.last_seq = rx_seq' /\ Len(resp.messages) = rx_count'
                    /\ FetchMessagesOk(resp, dt))
                => LET batch == IF cursor_primed THEN resp.messages ELSE <<>>
                       keyed == {i \in DOMAIN batch : HasProgressKey(batch[i])}
                   IN  IF keyed = {}
                       THEN msg_progress' = msg_progress
                       ELSE LET latest == CHOOSE i \in keyed : \A j \in keyed : j <= i
                                value == ProgressValue(batch[latest])
                            IN  msg_progress' = IF value = NotANumber
                                                THEN msg_progress
                                                ELSE value]_vars

\* a visible batch of two messages set the estimate to 0 after it had been
\* 55: the value 0 was taken
C33_Witness ==
    /\ tool = "wait_for_job"
    /\ at = "emit"
    /\ n_visible = 2
    /\ msg_progress = 0
    /\ last_emitted = 5445 * (Unit \div 100)

\* C34: every wait call eventually returns, with a terminal result or with
\* a timeout result, when time advances and every fetch completes, also
\* when every fetch fails and when the job never leaves an in-progress or
\* intermediate-complete state.
C34_Terminates ==
    <>(at = "returned" /\ result # None /\ result[1].kind \in {"terminal", "timeout"})

\* a wait_for_job call whose every fetch failed has returned by timeout
C34_Witness ==
    /\ tool = "wait_for_job"
    /\ at = "returned"
    /\ result # None
    /\ result[1].kind = "timeout"
    /\ n_status = 0
    /\ ~cursor_primed
    /\ n_msg_fetch >= 2
    /\ n_status_fetch >= 2

\* C35: a reallocation changes only the floor, the remembered split step
\* and the native estimate, which it resets to 2: the floor is not lowered,
\* and the ceiling (always 99), the cursor, the primed flag and last_emitted
\* are left as they were, so that the fetch after a phase transition asks
\* for the messages after the cursor and replays none.
C35_ReallocationFrame ==
    /\ [][n_realloc' = n_realloc + 1
            => /\ phase_floor' >= phase_floor
               /\ last_intermediate_step' # last_intermediate_step
               /\ msg_progress' = 2
               /\ phase_ceiling' = phase_ceiling
               /\ last_seq' = last_seq
               /\ cursor_primed' = cursor_primed
               /\ last_emitted' = last_emitted]_vars
    /\ [](tool = "wait_for_job" => phase_ceiling = 99 * Unit)
    /\ [][(n_realloc >= 1 /\ n_msg_fetch' = n_msg_fetch + 1)
            => since_sent' = last_seq]_vars

\* a reallocation after the value 55 had been emitted: the estimate is back
\* at 2, the cursor still stands at 2 and the call is primed
C35_Witness ==
    /\ tool = "wait_for_job"
    /\ at = "guard"
    /\ n_realloc = 1
    /\ msg_progress = 2
    /\ last_emitted = 5445 * (Unit \div 100)
    /\ last_seq = Some(2)
    /\ cursor_primed
    /\ phase_floor = 792 * (Unit \div 10)

\* C36: the first value a wait_for_job call emits is the default native
\* value 2 scaled onto the initial range, 1.98, whatever messages the
\* backend holds when the call starts and whether the first message fetch
\* succeeds or fails.
C36_FirstEmission ==
    [][(tool = "wait_for_job" /\ n_reports = 0 /\ n_reports' = 1)
        => /\ reported' = Some(198 * (Unit \div 100))
           /\ last_emitted' = 198 * (Unit \div 100)]_vars

\* the first fetch found a backlog (the cursor went to 2) and the first
\* emission was 1.98
C36_Witness ==
    /\ tool = "wait_for_job"
    /\ at = "status"
    /\ n_reports = 1
    /\ n_msg_fetch = 1
    /\ last_seq = Some(2)
    /\ cursor_primed
    /\ reported = Some(198 * (Unit \div 100))

\* C37: terminal detection comes before the timeout within a cycle: a
\* status fetch that returns a true-terminal state makes wait_for_job
\* return the terminal result, with 100 emitted, guidance attached and no
\* _wait_timeout marker, even when the deadline has already passed; the
\* marker is on a result exactly when the last state fetched is not
\* true-terminal.
C37_TerminalBeforeTimeout ==
    /\ [][(tool = "wait_for_job" /\ at = "status" /\ n_status' = n_status + 1
           /\ TrueTerminalState(data'))
            => /\ at' = "returned"
               /\ result' # None
               /\ result'[1].kind = "terminal"
               /\ ~result'[1].wait_timeout
               /\ result'[1].data = data'
               /\ result'[1].guidance.summary # ""
               /\ reported' = Some(Hundred)]_vars
    /\ []((tool = "wait_for_job" /\ at = "returned")
            => (result[1].wait_timeout <=> ~TrueTerminalState(data)))

\* a terminal state fetched after the deadline had passed was returned as
\* the terminal result
C37_Witness ==
    /\ tool = "wait_for_job"
    /\ at = "returned"
    /\ now > timeout_seconds
    /\ result[1].kind = "terminal"
    /\ ~result[1].wait_timeout
    /\ data.status = "completed"
    /\ reported = Some(Hundred)

\* C38: classifier and guidance agree on intermediate states: for every job
\* state that wait_for_job classifies as intermediate_complete, by any
\* marker, read from current_step or from step, the get_job_status guidance
\* recommends wait_for_job and not get_results, and so does the guidance of
\* a timeout result whose last state is intermediate.
C38_AsStated ==
    (tool = "wait_for_job" /\ _is_intermediate_complete(data))
        => /\ LET guidance == build_guidance("get_job_status", data)
              IN  /\ HasStep(guidance, "wait_for_job")
                  /\ ~HasStep(guidance, "get_results")
           /\ (at = "returned" /\ result[1].kind = "timeout")
                => /\ HasStep(result[1].guidance, "wait_for_job")
                   /\ ~HasStep(result[1].guidance, "get_results")

\* C39: a wait never sends the caller back into a wait that returns at once
\* on the same state: the guidance of a wait_for_conversation result that
\* is no timeout holds no wait_for_conversation step, also for a state with
\* trigger_execution true and status processing, and the guidance of a
\* true-terminal wait_for_job result holds no wait_for_job step.
C39_AsStated ==
    (at = "returned" /\ result[1].kind = "terminal")
        => /\ tool = "wait_for_conversation"
                => ~HasStep(result[1].guidance, "wait_for_conversation")
           /\ tool = "wait_for_job"
                => ~HasStep(result[1].guidance, "wait_for_job")

\* the step text the classifier matches its markers against
MatchedText(d) == Lower(OrText(d.current_step, d.step))

\* C40: the key that guards re-splitting is the step text the classifier
\* matched: an intermediate-complete snapshot whose step text differs from
\* the one that triggered the previous reallocation is followed by a new
\* reallocation, also when the text is in the step field and current_step
\* is absent.  Stated for the second successful status fetch of a call
\* whose first one was the snapshot that triggered the first reallocation.
C40_AsStated ==
    [][(/\ tool = "wait_for_job"
        /\ at = "status"
        /\ n_status = 1
        /\ n_realloc = 1
        /\ n_status' = 2
        /\ data'.status = "completed"
        /\ HasIntermediateMarker(data')
        /\ MatchedText(data') # MatchedText(data))
        => n_realloc' = 2]_vars

====
